---- MODULE Spec2Model ----
(***************************************************************************)
(* Website tech-stack scanner (src/src/main.js, lines 1-1060): the         *)
(* signature scanner, the category thresholds, the verdict and the         *)
(* two-tier orchestration (static pass over every URL, rendered pass over  *)
(* the URLs whose static pass found nothing).                              *)
(*                                                                         *)
(* JavaScript strings are sequences of one-character strings, so that      *)
(* toLowerCase, the humanizer and the case-insensitive comparisons are     *)
(* computed, not assumed.  null / undefined / '' (all falsy) is the empty  *)
(* sequence.                                                               *)
(***************************************************************************)
EXTENDS Integers, Sequences, FiniteSets, TLC

\* ------------------------------------------------------------------ bounds

\* Most page features (elements, headers) one fetched or rendered document holds.
MaxFeatures == 2

\* --------------------------------------------------------------- strings

NULL == <<>>

UpperToLower ==
    [c \in {"A","B","C","D","E","F","G","H","I","J","K","L","M",
            "N","O","P","Q","R","S","T","U","V","W","X","Y","Z"} |->
        CASE c = "A" -> "a" [] c = "B" -> "b" [] c = "C" -> "c" [] c = "D" -> "d"
          [] c = "E" -> "e" [] c = "F" -> "f" [] c = "G" -> "g" [] c = "H" -> "h"
          [] c = "I" -> "i" [] c = "J" -> "j" [] c = "K" -> "k" [] c = "L" -> "l"
          [] c = "M" -> "m" [] c = "N" -> "n" [] c = "O" -> "o" [] c = "P" -> "p"
          [] c = "Q" -> "q" [] c = "R" -> "r" [] c = "S" -> "s" [] c = "T" -> "t"
          [] c = "U" -> "u" [] c = "V" -> "v" [] c = "W" -> "w" [] c = "X" -> "x"
          [] c = "Y" -> "y" [] c = "Z" -> "z"]

LowerChar(c) == IF c \in DOMAIN UpperToLower THEN UpperToLower[c] ELSE c

UpperChar(c) ==
    IF \E u \in DOMAIN UpperToLower : UpperToLower[u] = c
    THEN CHOOSE u \in DOMAIN UpperToLower : UpperToLower[u] = c
    ELSE c

\* String.prototype.toLowerCase
toLowerCase(s) == [i \in DOMAIN s |-> LowerChar(s[i])]

IsAlnumLower(c) ==
    \/ \E u \in DOMAIN UpperToLower : UpperToLower[u] = c
    \/ c \in {"0","1","2","3","4","5","6","7","8","9"}

\* `const x = value; ... x ...`: the body applied to the value, which is
\* computed once.
With(value, Body(_)) == CHOOSE r \in {Body(x) : x \in {value}} : TRUE

\* Array.prototype.includes / some(x => x === v)
Includes(arr, v) == \E i \in DOMAIN arr : arr[i] = v

RECURSIVE SplitAcc(_, _, _)
\* s.split(/[_-]/): cur is the part being read, acc the parts already closed.
SplitAcc(s, cur, acc) ==
    IF s = <<>> THEN Append(acc, cur)
    ELSE IF Head(s) \in {"_", "-"} THEN SplitAcc(Tail(s), <<>>, Append(acc, cur))
    ELSE SplitAcc(Tail(s), Append(cur, Head(s)), acc)

RECURSIVE JoinWith(_, _)
\* parts.join(sep)
JoinWith(parts, sep) ==
    IF parts = <<>> THEN <<>>
    ELSE IF Len(parts) = 1 THEN parts[1]
    ELSE parts[1] \o sep \o JoinWith(Tail(parts), sep)

\* part.charAt(0).toUpperCase() + part.slice(1)
Capitalize(part) ==
    IF part = <<>> THEN <<>> ELSE <<UpperChar(part[1])>> \o Tail(part)

\* A variant of SameIgnoringCase that lowers one side only; C3 is tested against it.
SameAsLowered(a, b) == a = toLowerCase(b)

\* Whether two strings are equal when compared case-insensitively: the test of
\* deduplicateArray (seen.has(lower)) and of the Tier-2 frontend merge
\* (item.toLowerCase() === formatted.toLowerCase()).
SameIgnoringCase(a, b) == toLowerCase(a) = toLowerCase(b)

\* arr.some(item => item.toLowerCase() === v.toLowerCase())
SomeIgnoringCase(arr, v) == \E i \in DOMAIN arr : SameIgnoringCase(arr[i], v)

RECURSIVE DedupAcc(_, _)
\* The filter of deduplicateArray: out holds the entries kept so far, whose
\* lower-cased forms are the set `seen` of the code.
DedupAcc(arr, out) ==
    IF arr = <<>> THEN out
    ELSE IF SomeIgnoringCase(out, Head(arr)) THEN DedupAcc(Tail(arr), out)
    ELSE DedupAcc(Tail(arr), Append(out, Head(arr)))

\* deduplicateArray: keeps the first of the entries equal ignoring case.
deduplicateArray(arr) == DedupAcc(arr, <<>>)

\* s.includes(sub)
StrIncludes(s, sub) ==
    \E i \in 0..(Len(s) - Len(sub)) : SubSeq(s, i + 1, i + Len(sub)) = sub

\* ---------------------------------------------------------------- corpus

\* The technology keys of TECH_PATTERNS that the modelled pages can hit, in
\* declaration order (Object.entries order), and their spelling.
TECH_PATTERNS == <<"react", "wordpress", "drupal", "jquery", "cloudflare">>

Spell ==
    [react      |-> <<"r","e","a","c","t">>,
     wordpress  |-> <<"w","o","r","d","p","r","e","s","s">>,
     drupal     |-> <<"d","r","u","p","a","l">>,
     jquery     |-> <<"j","q","u","e","r","y">>,
     cloudflare |-> <<"c","l","o","u","d","f","l","a","r","e">>]

TechKeys == {TECH_PATTERNS[i] : i \in DOMAIN TECH_PATTERNS}

\* The technology key a spelling names, "" when it names none.
KeyOfSpelling(s) ==
    IF \E k \in TechKeys : Spell[k] = s
    THEN CHOOSE k \in TechKeys : Spell[k] = s
    ELSE ""

\* TECH_CATEGORIES, restricted to the modelled keys, in declaration order.
CategoryOrder == <<"frontend", "cms", "analytics", "hosting", "cdn">>

TECH_CATEGORIES ==
    [frontend  |-> <<"react">>,
     cms       |-> <<"wordpress", "drupal">>,
     analytics |-> <<>>,
     hosting   |-> <<>>,
     cdn       |-> <<"cloudflare">>]

\* The keys of the technologies object analyzeStaticResponse builds.
TechnologyLists ==
    {"frontend", "backend", "cms", "analytics", "hosting", "cdn", "libraries"}

CmsMinConfidence == 3
DefaultMinConfidence == 2

MIN_CONFIDENCE_BY_CATEGORY ==
    [cms       |-> CmsMinConfidence,
     frontend  |-> DefaultMinConfidence,
     analytics |-> DefaultMinConfidence,
     hosting   |-> DefaultMinConfidence,
     cdn       |-> DefaultMinConfidence,
     libraries |-> DefaultMinConfidence]

\* DISPLAY_NAMES, restricted to the modelled keys.
DISPLAY_NAMES == [jquery |-> <<"j","Q","u","e","r","y">>]

\* Channel weights of analyzeStaticResponse (the literals added to confidence).
ScriptWeight == 3
LinkWeight == 2
MetaWeight == 2
HtmlWeight == 2
HeaderWeight == 2
CdnWeight == 1

\* The labels added to a match's sources, in the order the channels are scanned.
ChannelOrder == <<"script", "stylesheet", "meta", "html", "header", "cdn">>

Weight ==
    [script |-> ScriptWeight, stylesheet |-> LinkWeight, meta |-> MetaWeight,
     html |-> HtmlWeight, header |-> HeaderWeight, cdn |-> CdnWeight]

SourceLabel ==
    [script     |-> <<"s","c","r","i","p","t">>,
     stylesheet |-> <<"s","t","y","l","e","s","h","e","e","t">>,
     meta       |-> <<"m","e","t","a">>,
     html       |-> <<"h","t","m","l">>,
     header     |-> <<"h","e","a","d","e","r">>,
     cdn        |-> <<"c","d","n">>]

WindowLabel == <<"w","i","n","d","o","w">>

\* ---------------------------------------------------------- name helpers

\* humanizeTechName
humanizeTechName(name) ==
    IF name = <<>> THEN <<>>
    ELSE LET lower == toLowerCase(name)
             key   == KeyOfSpelling(lower)
         IN IF key \in DOMAIN DISPLAY_NAMES THEN DISPLAY_NAMES[key]
            ELSE LET parts == SplitAcc(lower, <<>>, <<>>)
                 IN JoinWith([i \in DOMAIN parts |-> Capitalize(parts[i])], <<" ">>)

\* formatTechName
formatTechName(name, version) ==
    IF version # NULL THEN name \o <<" ">> \o version ELSE name

\* getCategoryForTech: the first category whose list includes the lower-cased name.
getCategoryForTech(techName) ==
    LET lower == toLowerCase(Spell[techName])
        Has(c) == \E i \in DOMAIN TECH_CATEGORIES[c] :
                      Spell[TECH_CATEGORIES[c][i]] = lower
        hits == SelectSeq(CategoryOrder, Has)
    IN IF hits # <<>> THEN hits[1] ELSE "libraries"

\* ------------------------------------------------------- extractVersion

Digits == {"0","1","2","3","4","5","6","7","8","9"}

RECURSIVE RunLength(_, _, _)
\* The length of the longest run of characters of cls that starts at text[i].
RunLength(text, i, cls) ==
    IF i <= Len(text) /\ text[i] \in cls
    THEN 1 + RunLength(text, i + 1, cls)
    ELSE 0

\* The least element of a non-empty set of positions.
Leftmost(positions) == CHOOSE p \in positions : \A q \in positions : p <= q

\* /^\d+\.\d+/.test(version)
IsVersion(version) ==
    /\ RunLength(version, 1, Digits) >= 1
    /\ RunLength(version, 1, Digits) + 2 <= Len(version)
    /\ version[RunLength(version, 1, Digits) + 1] = "."
    /\ version[RunLength(version, 1, Digits) + 2] \in Digits

\* The end of the match of \d+.\d+ at text[i], 0 when there is none.  The dot
\* of the template literal reaches the RegExp unescaped: it matches any
\* character; \d+ is greedy and gives back digits when the rest needs them.
EndOfPair(text, i) ==
    LET firsts == {n \in 1..RunLength(text, i, Digits) :
                      RunLength(text, i + n + 1, Digits) >= 1}
        first == CHOOSE n \in firsts : \A m \in firsts : m <= n
    IN IF firsts = {} THEN 0
       ELSE i + first + RunLength(text, i + first + 1, Digits)

\* The end of the match of \d+.\d+.\d+ at text[i], 0 when there is none.
EndOfTriple(text, i) ==
    LET pairs == {nn \in (1..RunLength(text, i, Digits)) \X (1..Len(text)) :
                     /\ nn[2] <= RunLength(text, i + nn[1] + 1, Digits)
                     /\ RunLength(text, i + nn[1] + nn[2] + 2, Digits) >= 1}
        best == CHOOSE nn \in pairs :
                    \A mm \in pairs : \/ mm[1] < nn[1]
                                      \/ mm[1] = nn[1] /\ mm[2] <= nn[2]
    IN IF pairs = {} THEN 0
       ELSE i + best[1] + best[2] + 1
            + RunLength(text, i + best[1] + best[2] + 2, Digits)

\* Where the capture group starts when `${techName}[@\/\-]`, followed by `v?`
\* in the first contextPattern alone, matches at text[p] (case-insensitively),
\* 0 when it does not.
AfterContext(text, techName, optionalV, p) ==
    IF /\ p + Len(techName) <= Len(text)
       /\ toLowerCase(SubSeq(text, p, p + Len(techName) - 1)) = techName
       /\ text[p + Len(techName)] \in {"@", "/", "-"}
    THEN IF optionalV
            /\ p + Len(techName) + 1 <= Len(text)
            /\ LowerChar(text[p + Len(techName) + 1]) = "v"
         THEN p + Len(techName) + 2
         ELSE p + Len(techName) + 1
    ELSE 0

\* The end of the capture group of the first contextPattern (optionalV) or of
\* the second at text[i], 0 when the group does not match there.
EndOfGroup(text, optionalV, i) ==
    IF optionalV THEN EndOfTriple(text, i) ELSE EndOfPair(text, i)

\* match[1] of text.match(pattern) for the first contextPattern,
\* `${techName}[@\/\-]v?(\d+.\d+.\d+)`, and, when optionalV is FALSE, for the
\* second, `${techName}[@\/\-](\d+.\d+)`; NULL when the pattern matches nowhere.
ContextCapture(text, techName, optionalV) ==
    LET starts == {p \in DOMAIN text :
                      With(AfterContext(text, techName, optionalV, p),
                           LAMBDA from : from # 0 /\ EndOfGroup(text, optionalV, from) # 0)}
    IN IF starts = {} THEN NULL
       ELSE With(AfterContext(text, techName, optionalV, Leftmost(starts)),
                 LAMBDA from : SubSeq(text, from, EndOfGroup(text, optionalV, from)))

\* match[1] of text.match(/\/([\d.]+)\//) and of text.match(/@([\d.]+)\//),
\* open being the "/" or the "@"; NULL when the pattern matches nowhere.
DelimitedCapture(text, open) ==
    LET run(p) == RunLength(text, p + 1, Digits \cup {"."})
        starts == {p \in DOMAIN text :
                      /\ text[p] = open
                      /\ run(p) >= 1
                      /\ p + run(p) + 1 <= Len(text)
                      /\ text[p + run(p) + 1] = "/"}
    IN IF starts = {} THEN NULL
       ELSE SubSeq(text, Leftmost(starts) + 1, Leftmost(starts) + run(Leftmost(starts)))

\* extractVersion: the capture of the first of the four contextPatterns whose
\* capture has the form X.Y; NULL when there is none.
extractVersion(text, techName) ==
    LET captures == << ContextCapture(text, Spell[techName], TRUE),
                       ContextCapture(text, Spell[techName], FALSE),
                       DelimitedCapture(text, "/"),
                       DelimitedCapture(text, "@") >>
        versions == SelectSeq(captures, IsVersion)
    IN IF versions = <<>> THEN NULL ELSE versions[1]

\* ------------------------------------------------------------ documents

\* The texts extractVersion is given by the features below: the src of the
\* React script, the content of the generator meta tag, the src of the jQuery
\* script.
ReactScriptSrc ==
    <<"h","t","t","p","s",":","/","/","u","n","p","k","g",".","c","o","m","/","r","e","a","c","t","@","1","8",".","2",".","0">>
    \o <<"/","u","m","d","/","r","e","a","c","t",".","p","r","o","d","u","c","t","i","o","n",".","m","i","n",".","j","s">>
GeneratorContent == <<"W","o","r","d","P","r","e","s","s"," ","6",".","3">>
JQueryScriptSrc == <<"/","j","s","/","j","q","u","e","r","y","-","3",".","6",".","0",".","m","i","n",".","j","s">>

\* A feature that hits nothing: no pattern hit, no response header, no cookie,
\* no WAF body pattern.
NoFeature ==
    [hits |-> <<>>, headers |-> {}, cookies |-> {}, wafHtml |-> {}]

\* The page features a document is made of.  Each names the hits it gives the
\* patterns of TECH_PATTERNS (technology key, channel, and the matching text
\* that is given to extractVersion, NULL where the code reads no version) and
\* the response headers it sets.
\*  1  <script src="https://unpkg.com/react@18.2.0/umd/react.production.min.js">
\*  2  <div id="root">
\*  3  <meta name="generator" content="WordPress 6.3">
\*  4  <link rel="stylesheet" href="/wp-content/themes/x/style.css">
\*  5  <script src="/wp-admin/js/x.js">
\*  6  inline text holding Drupal.settings and sites/default/files
\*  7  response header cf-ray
\*  8  <script src="/js/jquery-3.6.0.min.js">
\*  9  <script src="/wp-content/themes/x.js"> (the script pattern of wordpress
\*     does not match its src; the html pattern wp-content/themes/ matches)
\* 10  response header cf-cache-status
\* 11  response header akamai-grn
\* 12  <script src="/static/react-dom.production.min.js">
\* 13  response header x-powered-by: PHP
\* 14  <title>Shop</title> (see TitleOf)
FeatureTexts ==
    << [NoFeature EXCEPT !.hits =
            << [key |-> "react", channel |-> "script",
                text |-> ReactScriptSrc],
               [key |-> "react", channel |-> "cdn", text |-> NULL] >>],
       [NoFeature EXCEPT !.hits =
            << [key |-> "react", channel |-> "html", text |-> NULL] >>],
       [NoFeature EXCEPT !.hits =
            << [key |-> "wordpress", channel |-> "meta",
                text |-> GeneratorContent] >>],
       [NoFeature EXCEPT !.hits =
            << [key |-> "wordpress", channel |-> "stylesheet", text |-> NULL],
               [key |-> "wordpress", channel |-> "html", text |-> NULL] >>],
       [NoFeature EXCEPT !.hits =
            << [key |-> "wordpress", channel |-> "script", text |-> NULL] >>],
       [NoFeature EXCEPT !.hits =
            << [key |-> "drupal", channel |-> "html", text |-> NULL],
               [key |-> "drupal", channel |-> "html", text |-> NULL] >>],
       [NoFeature EXCEPT !.hits =
            << [key |-> "cloudflare", channel |-> "header", text |-> NULL] >>,
            !.headers = {[name |-> "cf-ray", value |-> <<"a","b","c","1","2","3">>]}],
       [NoFeature EXCEPT !.hits =
            << [key |-> "jquery", channel |-> "script",
                text |-> JQueryScriptSrc] >>],
       [NoFeature EXCEPT !.hits =
            << [key |-> "wordpress", channel |-> "html", text |-> NULL] >>],
       [NoFeature EXCEPT !.hits =
            << [key |-> "cloudflare", channel |-> "header", text |-> NULL] >>,
            !.headers = {[name |-> "cf-cache-status", value |-> <<"H","I","T">>]}],
       [NoFeature EXCEPT
            !.headers = {[name |-> "akamai-grn", value |-> <<"0",".","1">>]}],
       [NoFeature EXCEPT !.hits =
            << [key |-> "react", channel |-> "script",
                text |-> <<"/","s","t","a","t","i","c","/","r","e","a","c","t","-","d","o","m">>
                    \o <<".","p","r","o","d","u","c","t","i","o","n",".","m","i","n",".","j","s">>] >>],
       [NoFeature EXCEPT
            !.headers = {[name |-> "x-powered-by", value |-> <<"P","H","P">>]}],
       NoFeature >>

\* The features, each hit with the version extractVersion reads from its text.
Features ==
    [i \in DOMAIN FeatureTexts |->
        [FeatureTexts[i] EXCEPT !.hits =
            [j \in DOMAIN @ |->
                [key |-> @[j].key,
                 channel |-> @[j].channel,
                 version |-> IF @[j].text = NULL THEN NULL
                             ELSE extractVersion(@[j].text, @[j].key)]]]]

FeatureIds == DOMAIN Features

\* $('title').text() || null of a document: feature 14 is its only title.
TitleOf(doc) == IF 14 \in doc THEN <<"S","h","o","p">> ELSE NULL

\* The features that say what the origin is (its x-powered-by header, its
\* title) and match no signature.
OriginFeatures == {13, 14}

\* A document: the set of the features it holds (document order is id order).
Documents == {d \in SUBSET (FeatureIds \ OriginFeatures) : Cardinality(d) <= MaxFeatures}

\* The documents the origins of a batch of several URLs serve: the empty
\* shell of a single-page application, and the same with <div id="root">.
BatchDocuments == SUBSET {2}

\* The documents of an origin behind Akamai whose static page gives Tier 1 no
\* technology: any of <div id="root">, the akamai-grn header and the origin
\* features.
OriginDocuments == SUBSET ({2, 11} \cup OriginFeatures)

RECURSIVE HitsFrom(_, _)
\* Every hit of the document's features, features in document order.
HitsFrom(doc, i) ==
    IF i > Len(Features) THEN <<>>
    ELSE (IF i \in doc THEN Features[i].hits ELSE <<>>) \o HitsFrom(doc, i + 1)

\* The response headers of a document, as name/value pairs.
HeadersOf(doc) == UNION {Features[i].headers : i \in doc}

\* The Set-Cookie strings of a document.
CookiesOf(doc) == UNION {Features[i].cookies : i \in doc}

\* The WAF providers whose html pattern matches the document's body.
WafHtmlOf(doc) == UNION {Features[i].wafHtml : i \in doc}

\* headers[name], NULL when the header is absent.
HeaderValue(headers, name) ==
    IF \E h \in headers : h.name = name
    THEN (CHOOSE h \in headers : h.name = name).value
    ELSE NULL

RECURSIVE SumWeights(_)
SumWeights(hits) ==
    IF hits = <<>> THEN 0 ELSE Weight[Head(hits).channel] + SumWeights(Tail(hits))

RECURSIVE FirstVersion(_)
\* `if (!version) version = extractVersion(...)` over the hits in scan order.
FirstVersion(hits) ==
    IF hits = <<>> THEN NULL
    ELSE IF Head(hits).version # NULL THEN Head(hits).version
    ELSE FirstVersion(Tail(hits))

\* A variant of ScanHits in which a channel adds its weight once, however many
\* of its elements or patterns hit; C27 is tested against it.
ScanHitsOncePerChannel(hits) ==
    LET hitsOf(ch) == SelectSeq(hits, LAMBDA h : h.channel = ch)
        versioned == hitsOf("script") \o hitsOf("stylesheet") \o hitsOf("meta")
        hitChannels == SelectSeq(ChannelOrder, LAMBDA ch : hitsOf(ch) # <<>>)
    IN [confidence |-> SumWeights([i \in DOMAIN hitChannels |->
                                      [channel |-> hitChannels[i]]]),
        version |-> FirstVersion(versioned),
        sources |-> [i \in DOMAIN hitChannels |-> SourceLabel[hitChannels[i]]]]

\* The scan of the hits of one technology (the body of the loop over
\* TECH_PATTERNS): each hit adds its channel's weight; only script, link and
\* meta hits read a version; sources lists the channels in scan order.
ScanHits(hits) ==
    LET hitsOf(ch) == SelectSeq(hits, LAMBDA h : h.channel = ch)
        versioned == hitsOf("script") \o hitsOf("stylesheet") \o hitsOf("meta")
        hitChannels == SelectSeq(ChannelOrder, LAMBDA ch : hitsOf(ch) # <<>>)
    IN [confidence |-> SumWeights(hits),
        version |-> FirstVersion(versioned),
        sources |-> [i \in DOMAIN hitChannels |-> SourceLabel[hitChannels[i]]]]

\* The hits of one technology on the document, in document order.
ScanTech(doc, techName) ==
    With(SelectSeq(HitsFrom(doc, 1), LAMBDA h : h.key = techName), ScanHits)

RECURSIVE InsertDesc(_, _)
\* Inserts x after every element whose confidence is >= its own.
InsertDesc(sorted, x) ==
    IF sorted = <<>> THEN <<x>>
    ELSE IF Head(sorted).confidence >= x.confidence
         THEN <<Head(sorted)>> \o InsertDesc(Tail(sorted), x)
         ELSE <<x>> \o sorted

RECURSIVE SortAcc(_, _)
SortAcc(arr, sorted) ==
    IF arr = <<>> THEN sorted ELSE SortAcc(Tail(arr), InsertDesc(sorted, Head(arr)))

\* A variant of SortByConfidenceDesc that is descending but puts, among equal
\* confidences, the later element first; C21 is tested against it.
SortLaterFirst(arr) == SortAcc([i \in DOMAIN arr |-> arr[Len(arr) + 1 - i]], <<>>)

\* arr.sort((a, b) => b.confidence - a.confidence): descending and stable.
SortByConfidenceDesc(arr) == SortAcc(arr, <<>>)

\* The match record analyzeStaticResponse keeps for a technology that clears its
\* category's threshold.
MatchOf(techName, scan) ==
    [key |-> techName,
     confidence |-> scan.confidence,
     version |-> scan.version,
     category |-> getCategoryForTech(techName),
     displayName |-> humanizeTechName(Spell[techName]),
     sources |-> scan.sources]

\* techMatches[techName] for the document.
StaticMatch(doc, techName) ==
    With(ScanTech(doc, techName), LAMBDA scan : MatchOf(techName, scan))

\* A variant of ClearsThreshold that keeps every technology with some evidence,
\* whatever its category's threshold; C4 is tested against it.
HasEvidence(m) == m.confidence > 0

\* `confidence >= threshold`, the threshold being that of the technology's category.
ClearsThreshold(m) == m.confidence >= MIN_CONFIDENCE_BY_CATEGORY[m.category]

\* A variant of CmsEntries that lists every candidate, in the order pushed; C2 is
\* tested against it.
EveryCandidate(cmsCandidates) ==
    [i \in DOMAIN cmsCandidates |->
        formatTechName(cmsCandidates[i].displayName, cmsCandidates[i].version)]

\* technologies.cms = [formatTechName(topCMS.displayName, topCMS.version)]
TopEntry(topCMS) == <<formatTechName(topCMS.displayName, topCMS.version)>>

\* technologies.cms: the candidates are sorted by descending confidence and the
\* first one alone is listed.
CmsEntries(cmsCandidates) ==
    IF cmsCandidates # <<>>
    THEN With(SortByConfidenceDesc(cmsCandidates)[1], TopEntry)
    ELSE <<>>

\* The resolution of the categories from techMatches: technologies lists the
\* formatted names by category, cms holding only the first of the candidates
\* sorted by descending confidence.
ResolveCategories(techMatches) ==
    LET listed(c) == SelectSeq(techMatches, LAMBDA m : m.category = c)
        format(m) == formatTechName(m.displayName, m.version)
        technologies ==
            [c \in TechnologyLists |->
                IF c = "cms" THEN CmsEntries(listed("cms"))
                ELSE IF c = "backend" THEN <<>>
                ELSE [i \in DOMAIN listed(c) |-> format(listed(c)[i])]]
    IN [technologies |-> [c \in TechnologyLists |-> deduplicateArray(technologies[c])],
        structuredData |-> <<>>,
        techMatches |-> techMatches]

\* analyzeStaticResponse: techMatches holds, in corpus order, every technology
\* that clears its threshold.
analyzeStaticResponse(doc) ==
    With(SelectSeq([i \in DOMAIN TECH_PATTERNS |-> StaticMatch(doc, TECH_PATTERNS[i])],
                   ClearsThreshold),
         ResolveCategories)

\* ------------------------------------------------------------------- WAF

\* The providers of WAF_PATTERNS whose signals the modelled documents can carry,
\* in declaration order, with their spelling and their header names.
WAF_PATTERNS == <<"cloudflare", "akamai", "imperva">>

WafSpell ==
    [cloudflare |-> <<"c","l","o","u","d","f","l","a","r","e">>,
     akamai     |-> <<"a","k","a","m","a","i">>,
     imperva    |-> <<"i","m","p","e","r","v","a">>]

WafHeaders ==
    [cloudflare |-> {"cf-ray", "cf-cache-status", "__cfduid", "cf-request-id"},
     akamai     |-> {"akamai-origin-hop", "akamai-grn", "akamai-request-bc",
                     "x-akamai-transformed"},
     imperva    |-> {"x-cdn", "x-iinfo", "x-originating-ip"}]

WafCookies ==
    [cloudflare |-> {<<"_","_","c","f","d","u","i","d">>, <<"_","_","c","f","_","b","m">>,
                     <<"_","_","c","f","w","a","f">>},
     akamai     |-> {},
     imperva    |-> {<<"i","n","c","a","p","_","s","e","s">>,
                     <<"v","i","s","i","d","_","i","n","c","a","p">>,
                     <<"_","_","i","n","c","a","p","_","0">>}]

\* The banner substrings the server patterns look for (case-insensitively).
WafServer ==
    [cloudflare |-> {<<"c","l","o","u","d","f","l","a","r","e">>},
     akamai     |-> {<<"a","k","a","m","a","i","g","h","o","s","t">>,
                     <<"a","k","a","m","a","i","t","e","c","h","n","o","l","o","g","i","e","s">>},
     imperva    |-> {}]

WafHeaderWeight == 3
WafCookieWeight == 2
WafServerWeight == 2
WafHtmlWeight == 1
WafHighScore == 5
WafMediumScore == 3

\* s.startsWith(prefix)
StartsWith(s, prefix) ==
    Len(prefix) <= Len(s) /\ SubSeq(s, 1, Len(prefix)) = prefix

\* A variant of WafScore that adds the header weight once, however many of the
\* provider's headers are present; C14 is tested against it.
WafScoreFlatHeaders(name, headers, cookies, wafHtml) ==
    (IF \E h \in WafHeaders[name] : HeaderValue(headers, h) # NULL
     THEN WafHeaderWeight ELSE 0)
    + Cardinality({c \in WafCookies[name] :
          \E cookie \in cookies : StartsWith(toLowerCase(cookie), toLowerCase(c))})
      * WafCookieWeight
    + (IF \E s \in WafServer[name] :
             StrIncludes(toLowerCase(HeaderValue(headers, "server")), s)
       THEN WafServerWeight ELSE 0)
    + (IF name \in wafHtml THEN WafHtmlWeight ELSE 0)

\* The score detectWAF gives one provider.
WafScore(name, headers, cookies, wafHtml) ==
    LET headerMatches ==
            Cardinality({h \in WafHeaders[name] : HeaderValue(headers, h) # NULL})
        cookieMatches ==
            Cardinality({c \in WafCookies[name] :
                \E cookie \in cookies : StartsWith(toLowerCase(cookie), toLowerCase(c))})
        server == HeaderValue(headers, "server")
        serverHit ==
            \E s \in WafServer[name] : StrIncludes(toLowerCase(server), s)
    IN headerMatches * WafHeaderWeight
       + cookieMatches * WafCookieWeight
       + (IF serverHit THEN WafServerWeight ELSE 0)
       + (IF name \in wafHtml THEN WafHtmlWeight ELSE 0)

RECURSIVE ReduceTop(_, _)
\* entries.reduce((a, b) => a[1] > b[1] ? a : b): acc is kept only while its
\* score is strictly greater than the next entry's.
ReduceTop(acc, rest) ==
    IF rest = <<>> THEN acc
    ELSE ReduceTop(IF acc.score > Head(rest).score THEN acc ELSE Head(rest), Tail(rest))

\* The tier detectWAF reports for the winning score.
WafConfidence(score) ==
    IF score >= WafHighScore THEN "high"
    ELSE IF score >= WafMediumScore THEN "medium"
    ELSE "low"

\* The value detectWAF returns for the top-scoring provider.
TopWaf(topWaf) ==
    [name |-> Capitalize(WafSpell[topWaf.name]),
     confidence |-> WafConfidence(topWaf.score),
     score |-> topWaf.score]

\* detectWAF over the providers that scored above 0.
ReportWaf(wafScores) ==
    IF wafScores = <<>> THEN NULL
    ELSE With(ReduceTop(Head(wafScores), Tail(wafScores)), TopWaf)

\* detectWAF: NULL when no provider scores above 0.
detectWAF(headers, cookies, wafHtml) ==
    With(SelectSeq([i \in DOMAIN WAF_PATTERNS |->
                       [name |-> WAF_PATTERNS[i],
                        score |-> WafScore(WAF_PATTERNS[i], headers, cookies, wafHtml)]],
                   LAMBDA e : e.score > 0),
         ReportWaf)

\* The waf field of a record (wafInfo of the CheerioCrawler requestHandler).
WafInfo(waf) ==
    IF waf = NULL THEN [detected |-> FALSE]
    ELSE [detected |-> TRUE, provider |-> waf.name,
          confidence |-> waf.confidence, score |-> waf.score]

\* --------------------------------------------------------------- verdict

S_PHP == <<"P","H","P">>
S_MySQL == <<"M","y","S","Q","L","/","M","a","r","i","a","D","B">>
S_PostgreSQL == <<"P","o","s","t","g","r","e","S","Q","L">>
S_JsTs == <<"J","a","v","a","S","c","r","i","p","t","/","T","y","p","e","S","c","r","i","p","t">>
S_DotNet == <<".","N","E","T">>
S_NodeJs == <<"N","o","d","e",".","j","s">>
S_Python == <<"P","y","t","h","o","n">>
S_Ruby == <<"R","u","b","y">>
S_Unknown == <<"U","n","k","n","o","w","n">>

\* STACK_INFERENCES, restricted to the modelled keys.
STACK_INFERENCES ==
    [wordpress |-> [languages |-> <<S_PHP>>, databases |-> <<S_MySQL>>],
     drupal    |-> [languages |-> <<S_PHP>>, databases |-> <<S_MySQL, S_PostgreSQL>>],
     react     |-> [languages |-> <<S_JsTs>>, databases |-> <<>>]]

\* The banner keywords buildVerdict looks for, in order, with the language each adds.
BannerKeywords ==
    << [word |-> <<"p","h","p">>, language |-> S_PHP],
       [word |-> <<"a","s","p",".","n","e","t">>, language |-> S_DotNet],
       [word |-> <<"n","o","d","e">>, language |-> S_NodeJs],
       [word |-> <<"p","y","t","h","o","n">>, language |-> S_Python],
       [word |-> <<"r","u","b","y">>, language |-> S_Ruby],
       [word |-> <<"l","a","r","a","v","e","l">>, language |-> S_PHP] >>

TierSpell ==
    [high |-> <<"h","i","g","h">>, medium |-> <<"m","e","d","i","u","m">>, low |-> <<"l","o","w">>]

VerdictHighScore == 6
VerdictMediumScore == 3

\* confidenceFromScore
confidenceFromScore(score) ==
    IF score >= VerdictHighScore THEN "high"
    ELSE IF score >= VerdictMediumScore THEN "medium"
    ELSE "low"

\* The value pickTop returns for the first candidate.
TopPick(top) ==
    [key |-> top.key,
     displayName |-> IF top.displayName # NULL THEN top.displayName
                     ELSE humanizeTechName(Spell[top.key]),
     version |-> top.version,
     confidence |-> top.confidence]

\* pickTop over the matches of the category: the first after a stable
\* descending sort, NULL when there is none.
PickFrom(candidates) ==
    IF candidates = <<>> THEN NULL
    ELSE With(SortByConfidenceDesc(candidates)[1], TopPick)

\* pickTop(techMatches, category) of buildVerdict.
pickTop(techMatches, category) ==
    With(SelectSeq(techMatches, LAMBDA m : m.category = category), PickFrom)

\* addInference of buildVerdict: the lists STACK_INFERENCES gives a primary pick.
InferenceOf(pick, field) ==
    IF pick = NULL THEN <<>>
    ELSE LET key == KeyOfSpelling(toLowerCase(Spell[pick.key]))
         IN IF key \in DOMAIN STACK_INFERENCES THEN STACK_INFERENCES[key][field]
            ELSE <<>>

\* `primary.x?.confidence || 0`
ConfidenceOrZero(pick) == IF pick = NULL THEN 0 ELSE pick.confidence

Max2(a, b) == IF a >= b THEN a ELSE b

\* inferred of buildVerdict: the inferences of the cms and frontend picks, then
\* the languages of the keywords found in serverBlob, deduplicated.
Inferred(primary, serverBlob) ==
    LET hitWords == SelectSeq(BannerKeywords, LAMBDA k : StrIncludes(serverBlob, k.word))
    IN [languages |-> deduplicateArray(
                          InferenceOf(primary.cms, "languages")
                          \o InferenceOf(primary.frontend, "languages")
                          \o [i \in DOMAIN hitWords |-> hitWords[i].language]),
        databases |-> deduplicateArray(
                          InferenceOf(primary.cms, "databases")
                          \o InferenceOf(primary.frontend, "databases"))]

\* A line of summaryParts for a primary pick.
SummaryLine(label, pick) ==
    IF pick = NULL THEN <<>>
    ELSE << label \o formatTechName(pick.displayName, pick.version) >>

\* summaryParts of buildVerdict.
SummaryParts(primary, inferred, waf) ==
    SummaryLine(<<"C","M","S",":"," ">>, primary.cms)
    \o SummaryLine(<<"F","r","o","n","t","e","n","d",":"," ">>, primary.frontend)
    \o SummaryLine(<<"H","o","s","t","i","n","g",":"," ">>, primary.hosting)
    \o SummaryLine(<<"C","D","N",":"," ">>, primary.cdn)
    \o (IF waf.detected
        THEN << <<"W","A","F",":"," ">> \o waf.provider \o <<" ", "(">>
                \o TierSpell[waf.confidence] \o <<")">> >>
        ELSE <<>>)
    \o (IF inferred.languages # <<>>
        THEN << <<"L","a","n","g","u","a","g","e",":"," ">>
                \o JoinWith(inferred.languages, <<",", " ">>) >>
        ELSE <<>>)
    \o (IF inferred.databases # <<>>
        THEN << <<"D","a","t","a","b","a","s","e",":"," ">>
                \o JoinWith(inferred.databases, <<",", " ">>) >>
        ELSE <<>>)

\* topScore of buildVerdict.
TopScore(primary) ==
    Max2(Max2(ConfidenceOrZero(primary.cms), ConfidenceOrZero(primary.frontend)),
         Max2(ConfidenceOrZero(primary.hosting), ConfidenceOrZero(primary.cdn)))

\* The value buildVerdict returns.
VerdictOf(primary, inferred, waf) ==
    [primary |-> primary,
     inferred |-> inferred,
     confidence |-> confidenceFromScore(TopScore(primary)),
     summary |-> JoinWith(SummaryParts(primary, inferred, waf), <<" ", "|", " ">>)]

\* buildVerdict from its primary picks.
VerdictFrom(primary, waf, serverInfo) ==
    With(Inferred(primary,
                  toLowerCase(serverInfo.software \o <<" ">> \o serverInfo.poweredBy)),
         LAMBDA inferred : VerdictOf(primary, inferred, waf))

\* buildVerdict.  Its first argument, technologies, is never read by the code.
buildVerdict(technologies, techMatches, waf, serverInfo) ==
    With([cms      |-> pickTop(techMatches, "cms"),
          frontend |-> pickTop(techMatches, "frontend"),
          hosting  |-> pickTop(techMatches, "hosting"),
          cdn      |-> pickTop(techMatches, "cdn")],
         LAMBDA primary : VerdictFrom(primary, waf, serverInfo))

\* serverInfo of both handlers: headers['server'] || 'Unknown' and
\* headers['x-powered-by'] || null.
ServerInfo(headers) ==
    [software |-> IF HeaderValue(headers, "server") # NULL
                  THEN HeaderValue(headers, "server") ELSE S_Unknown,
     poweredBy |-> HeaderValue(headers, "x-powered-by")]

\* ------------------------------------------------------- endpoint prober

\* API_ENDPOINTS, in order.
API_ENDPOINTS ==
    << <<"/","a","p","i">>,
       <<"/","g","r","a","p","h","q","l">>,
       <<"/","_","n","e","x","t","/","s","t","a","t","i","c">>,
       <<"/","w","p","-","j","s","o","n","/","w","p","/","v","2">>,
       <<"/","_","n","u","x","t">>,
       <<"/","r","o","b","o","t","s",".","t","x","t">> >>

S_graphql == <<"g","r","a","p","h","q","l">>
S_json == <<"a","p","p","l","i","c","a","t","i","o","n","/","j","s","o","n">>
S_textHtml == <<"t","e","x","t","/","h","t","m","l">>

HttpErrorStatus == 400

\* What one probe request can come to: no reply (network error or the 2 s
\* request timeout: gotScraping throws) or a reply with a status and content type.
NoReply == [answered |-> FALSE]

Reply(status, contentType) ==
    [answered |-> TRUE, statusCode |-> status, contentType |-> contentType]

\* The reply maps the modelled origins give: nothing answers; /graphql answers
\* 200 with JSON; /api answers 404 and /robots.txt answers 200 with HTML.
ProbeReplies ==
    { [i \in DOMAIN API_ENDPOINTS |-> NoReply],
      [i \in DOMAIN API_ENDPOINTS |->
          IF i = 2 THEN Reply(200, S_json) ELSE NoReply],
      [i \in DOMAIN API_ENDPOINTS |->
          IF i = 1 THEN Reply(404, S_json)
          ELSE IF i = 6 THEN Reply(200, S_textHtml) ELSE NoReply] }

\* Most endpoints that answer the prober in the reply maps of AnyReplies.
MaxAnswered == 2

\* The replies an endpoint may give the prober: none, or one around the status
\* and content-type tests of probeApiEndpoints.
ReplyKinds ==
    LET jsonCharset ==
            <<"a","p","p","l","i","c","a","t","i","o","n","/","j","s","o","n",
              ";"," ","c","h","a","r","s","e","t","=","u","t","f","-","8">>
        textJson == <<"t","e","x","t","/","j","s","o","n">>
    IN {NoReply, Reply(200, S_json), Reply(399, jsonCharset), Reply(400, S_json),
        Reply(200, textJson)}

\* Every reply map in which at most MaxAnswered endpoints answer.
AnyReplies ==
    {replies \in [DOMAIN API_ENDPOINTS -> ReplyKinds] :
        Cardinality({i \in DOMAIN API_ENDPOINTS : replies[i].answered}) <= MaxAnswered}

\* The initial value of apis, and what the 5 s race resolves to when it wins.
NoApis == [graphql |-> FALSE, rest |-> FALSE, endpoints |-> <<>>]

\* A variant of probeApiEndpoints that also discovers an endpoint answering 400;
\* C18 is tested against it.
probeUpToBadRequest(replies) ==
    LET found == SelectSeq([i \in DOMAIN API_ENDPOINTS |->
                               [endpoint |-> API_ENDPOINTS[i], reply |-> replies[i]]],
                           LAMBDA r : r.reply.answered
                                      /\ r.reply.statusCode <= HttpErrorStatus)
    IN [graphql |-> \E i \in DOMAIN found : StrIncludes(found[i].endpoint, S_graphql),
        rest |-> \E i \in DOMAIN found : StrIncludes(found[i].reply.contentType, S_json),
        endpoints |-> deduplicateArray([i \in DOMAIN found |-> found[i].endpoint])]

\* probeApiEndpoints: an endpoint is discovered when its request is answered
\* with a status below 400.
probeApiEndpoints(replies) ==
    LET found == SelectSeq([i \in DOMAIN API_ENDPOINTS |->
                               [endpoint |-> API_ENDPOINTS[i], reply |-> replies[i]]],
                           LAMBDA r : r.reply.answered
                                      /\ r.reply.statusCode < HttpErrorStatus)
    IN [graphql |-> \E i \in DOMAIN found : StrIncludes(found[i].endpoint, S_graphql),
        rest |-> \E i \in DOMAIN found : StrIncludes(found[i].reply.contentType, S_json),
        endpoints |-> deduplicateArray([i \in DOMAIN found |-> found[i].endpoint])]

\* ------------------------------------------------------- runtime globals

\* The window properties a rendered page may define.
WindowProps == {"React", "jQuery"}

\* The checks of extractBrowserTechnologies whose properties are modelled, in order.
BrowserChecks ==
    << [name |-> <<"R","e","a","c","t">>,
        props |-> {"React", "__REACT_DEVTOOLS_GLOBAL_HOOK__", "__REACT_PROFILER_ENABLED__"}],
       [name |-> <<"j","Q","u","e","r","y">>, props |-> {"jQuery", "$"}] >>

\* extractBrowserTechnologies: the names whose check finds a defined property.
extractBrowserTechnologies(window) ==
    LET hit == SelectSeq(BrowserChecks, LAMBDA c : c.props \cap window # {})
    IN [i \in DOMAIN hit |-> hit[i].name]

RECURSIVE StripNonAlnum(_)
\* s.replace(/[^a-z0-9]/g, '')
StripNonAlnum(str) ==
    IF str = <<>> THEN <<>>
    ELSE (IF IsAlnumLower(Head(str)) THEN <<Head(str)>> ELSE <<>>)
         \o StripNonAlnum(Tail(str))

\* The entries of the mapping table of mapBrowserTechToKey for the modelled keys.
BrowserKeyMapping == [react |-> "react", jquery |-> "jquery"]

\* A variant of mapBrowserTechToKey that does not lower-case the name before
\* stripping it; C12 is tested against it.
mapWithoutLowering(displayName) ==
    LET key == KeyOfSpelling(StripNonAlnum(displayName))
    IN IF key \in DOMAIN BrowserKeyMapping THEN BrowserKeyMapping[key] ELSE ""

\* mapBrowserTechToKey: "" stands for null.
mapBrowserTechToKey(displayName) ==
    LET normalized == StripNonAlnum(toLowerCase(displayName))
        key == KeyOfSpelling(normalized)
    IN IF key \in DOMAIN BrowserKeyMapping THEN BrowserKeyMapping[key] ELSE ""

RuntimeConfidence == 3

\* The index of the match of a key in techMatches, 0 when it has none.
MatchIndex(techMatches, key) ==
    IF \E i \in DOMAIN techMatches : techMatches[i].key = key
    THEN CHOOSE i \in DOMAIN techMatches : techMatches[i].key = key
    ELSE 0

\* A variant of MergeMatch that sets the confidence of the match to the runtime
\* confidence, whatever it was; C24 is tested against it.
MergeMatchOverwrites(acc, key, idx, fresh) ==
    [technologies |->
        IF getCategoryForTech(key) = "frontend"
           /\ ~SomeIgnoringCase(acc.technologies.frontend,
                                formatTechName(humanizeTechName(Spell[key]), NULL))
        THEN [acc.technologies EXCEPT
                 !.frontend = Append(@, formatTechName(humanizeTechName(Spell[key]), NULL))]
        ELSE acc.technologies,
     techMatches |->
        IF idx # 0
        THEN [acc.techMatches EXCEPT
                 ![idx] = [@ EXCEPT
                              !.confidence = RuntimeConfidence,
                              !.sources = deduplicateArray(Append(@, WindowLabel))]]
        ELSE Append(acc.techMatches,
                    [fresh EXCEPT
                        !.confidence = RuntimeConfidence,
                        !.sources = deduplicateArray(Append(@, WindowLabel))])]

\* The body of browserTechs.forEach for a key whose match stands at idx of
\* techMatches (0: it has none and the fresh match is added).
MergeMatch(acc, key, idx, fresh) ==
    [technologies |->
        IF getCategoryForTech(key) = "frontend"
           /\ ~SomeIgnoringCase(acc.technologies.frontend,
                                formatTechName(humanizeTechName(Spell[key]), NULL))
        THEN [acc.technologies EXCEPT
                 !.frontend = Append(@, formatTechName(humanizeTechName(Spell[key]), NULL))]
        ELSE acc.technologies,
     techMatches |->
        IF idx # 0
        THEN [acc.techMatches EXCEPT
                 ![idx] = [@ EXCEPT
                              !.confidence = Max2(@, RuntimeConfidence),
                              !.sources = deduplicateArray(Append(@, WindowLabel))]]
        ELSE Append(acc.techMatches,
                    [fresh EXCEPT
                        !.confidence = Max2(@, RuntimeConfidence),
                        !.sources = deduplicateArray(Append(@, WindowLabel))])]

\* The body of browserTechs.forEach for a mapped key: the match of the key, or
\* a fresh one of confidence 0, is raised to the runtime confidence.
MergeKey(acc, key) ==
    IF key = "" THEN acc
    ELSE MergeMatch(acc, key, MatchIndex(acc.techMatches, key),
                    [key |-> key, confidence |-> 0, version |-> NULL,
                     category |-> getCategoryForTech(key),
                     displayName |-> humanizeTechName(Spell[key]),
                     sources |-> <<>>])

\* One step of browserTechs.forEach in the PlaywrightCrawler requestHandler.
MergeBrowserTech(acc, tech) ==
    With(mapBrowserTechToKey(tech), LAMBDA key : MergeKey(acc, key))

RECURSIVE MergeBrowserTechs(_, _)
\* browserTechs.forEach(...) over the technologies and matches of the rendered scan.
MergeBrowserTechs(acc, browserTechs) ==
    IF browserTechs = <<>> THEN acc
    ELSE With(MergeBrowserTech(acc, Head(browserTechs)),
              LAMBDA merged : MergeBrowserTechs(merged, Tail(browserTechs)))

\* ---------------------------------------------------------------- records

\* deduplicateResult
deduplicateResult(result) ==
    [result EXCEPT
        !.technologies = [c \in DOMAIN @ |-> deduplicateArray(@[c])],
        !.apis.endpoints = deduplicateArray(@),
        !.verdict.inferred.languages = deduplicateArray(@),
        !.verdict.inferred.databases = deduplicateArray(@)]

\* What the CheerioCrawler requestHandler computes from the fetched document
\* alone: the scan, waf, serverInfo, the title and the verdict.
LocalsOf(scan, wafInfo, serverInfo, title) ==
    [title |-> title,
     technologies |-> scan.technologies,
     structuredData |-> scan.structuredData,
     techMatches |-> scan.techMatches,
     wafInfo |-> wafInfo,
     serverInfo |-> serverInfo,
     verdict |-> buildVerdict(scan.technologies, scan.techMatches, wafInfo, serverInfo)]

\* The locals of the CheerioCrawler requestHandler for a fetched document.
StaticLocals(doc) ==
    With(<<analyzeStaticResponse(doc),
           WafInfo(detectWAF(HeadersOf(doc), CookiesOf(doc), WafHtmlOf(doc))),
           ServerInfo(HeadersOf(doc)),
           TitleOf(doc)>>,
         LAMBDA l : LocalsOf(l[1], l[2], l[3], l[4]))

\* The record the CheerioCrawler requestHandler builds from its locals.
ResultOf(url, l, apis, now) ==
    deduplicateResult(
        [url |-> url,
         status |-> "success",
         technologies |-> l.technologies,
         waf |-> l.wafInfo,
         apis |-> apis,
         metadata |-> [title |-> l.title, description |-> NULL,
                       structuredData |-> l.structuredData],
         server |-> l.serverInfo,
         detectionMethod |-> "static",
         verdict |-> l.verdict,
         detectionDetails |-> [matches |-> l.techMatches],
         scannedAt |-> now])

\* cleanResult of the CheerioCrawler requestHandler for a fetched document.
StaticResult(url, doc, apis, now) ==
    With(StaticLocals(doc), LAMBDA l : ResultOf(url, l, apis, now))

\* failedResult of the catch block of the CheerioCrawler requestHandler.
FailedResult(url, message, now) ==
    [url |-> url, status |-> "failed", error |-> message, scannedAt |-> now]

\* technologies and techMatches after the merge, structuredData of the scan.
MergedScan(scan, merged) ==
    [technologies |-> merged.technologies,
     techMatches |-> merged.techMatches,
     structuredData |-> scan.structuredData]

\* browserTechs.forEach(...) applied to the scan of the rendered document.
MergeInto(scan, browserTechs) ==
    With(MergeBrowserTechs(
             [technologies |-> scan.technologies, techMatches |-> scan.techMatches],
             browserTechs),
         LAMBDA merged : MergedScan(scan, merged))

\* The locals of the PlaywrightCrawler requestHandler for a rendered page.
BrowserLocals(doc, window) ==
    With(analyzeStaticResponse(doc),
         LAMBDA scan : MergeInto(scan, extractBrowserTechnologies(window)))

\* A variant of UpdatedResult that leaves the verdict as Tier 1 built it; C25 is
\* tested against it.
UpdatedKeepsVerdict(old, merged) ==
    deduplicateResult(
        [old EXCEPT
            !.technologies = merged.technologies,
            !.metadata = [@ EXCEPT !.structuredData = merged.structuredData],
            !.detectionDetails = [matches |-> merged.techMatches],
            !.detectionMethod = "browser"])

\* A variant of UpdatedResult whose verdict is built from a response without
\* headers, not from the waf and server of the record; C29 is tested against it.
UpdatedWithoutOrigin(old, merged) ==
    deduplicateResult(
        [old EXCEPT
            !.technologies = merged.technologies,
            !.metadata = [@ EXCEPT !.structuredData = merged.structuredData],
            !.verdict = buildVerdict(merged.technologies, merged.techMatches,
                                     WafInfo(detectWAF({}, {}, {})), ServerInfo({})),
            !.detectionDetails = [matches |-> merged.techMatches],
            !.detectionMethod = "browser"])

\* The update the PlaywrightCrawler requestHandler makes to results[idx] from
\* the merged scan.
UpdatedResult(old, merged) ==
    deduplicateResult(
        [old EXCEPT
            !.technologies = merged.technologies,
            !.metadata = [@ EXCEPT !.structuredData = merged.structuredData],
            !.verdict = buildVerdict(merged.technologies, merged.techMatches,
                                     old.waf, old.server),
            !.detectionDetails = [matches |-> merged.techMatches],
            !.detectionMethod = "browser"])

\* cleanResult of the PlaywrightCrawler requestHandler for a rendered page.
BrowserResult(old, doc, window) ==
    With(BrowserLocals(doc, window), LAMBDA merged : UpdatedResult(old, merged))

\* Object.values(r.technologies || {}).flat().length
TechCount(r) ==
    LET RECURSIVE Sum(_)
        Sum(cs) == IF cs = {} THEN 0
                   ELSE LET c == CHOOSE x \in cs : TRUE
                        IN Len(r.technologies[c]) + Sum(cs \ {c})
    IN Sum(DOMAIN r.technologies)

\* A variant of IsSpa that selects every success record; C10 is tested against it.
IsSuccessRecord(r) == r.status = "success"

\* The filter that selects the URLs of Phase 2.
IsSpa(r) == r.status = "success" /\ TechCount(r) = 0

\* A variant of FindIndex that gives the first record of a non-empty list,
\* whatever its url; C28 is tested against it.
FirstIndex(list, url) == IF list = <<>> THEN 0 ELSE 1

\* results.findIndex(r => r.url === url), 0 for -1.
FindIndex(list, url) ==
    IF \E i \in DOMAIN list : list[i].url = url
    THEN CHOOSE i \in DOMAIN list :
            list[i].url = url /\ \A j \in 1..(i - 1) : list[j].url # url
    ELSE 0

\* ------------------------------------------------------------------ state

\* The URLs an input may name.  The crawlers' request queues drop repeated
\* URLs, so an input is modelled by the set of its URLs.
URLS == {"u1", "u2"}

MaxRequestRetries == 1

VARIABLES
    input,          \* Actor.getInput(): urls, usePlaywrightFallback, probeApiEndpoints
    pc,             \* position of the main program
    results,        \* the results array
    dataset,        \* the records written by Dataset.pushData, in order
    processedCount, \* the processedCount counter
    t1,             \* per URL: position of its CheerioCrawler request
    t2,             \* per URL: position of its PlaywrightCrawler request
    site,           \* what the origins may serve: documents, and replies to the prober
    body,           \* per URL: the document its static fetch returned
    page,           \* per URL: the rendered document and the globals of its window
    clock,          \* the wall clock read by new Date() and Date.now()
    startTime,      \* startTime
    summary         \* the OUTPUT_SUMMARY value, NULL until set

vars == <<input, pc, results, dataset, processedCount, t1, t2, site, body, page,
          clock, startTime, summary>>

\* The value of body[u] while no document of u is held (no document holds feature 0).
Unfetched == {0}

\* The value of page[u] while no page of u is open.
NoPage == [doc |-> Unfetched, window |-> {}]

\* A crawler request: where it stands, the retries used, and the record whose
\* pushData is pending.
Request(at) == [at |-> at, retries |-> 0, pending |-> NULL]

Inputs ==
    [urls : SUBSET URLS, usePlaywrightFallback : BOOLEAN, probeApiEndpoints : BOOLEAN]

InitOrigins(urlSets, documents, replies) ==
    /\ input \in {i \in Inputs : i.urls \in urlSets}
    /\ site = [documents |-> documents, replies |-> replies]
    /\ pc = "start"
    /\ results = <<>>
    /\ dataset = <<>>
    /\ processedCount = 0
    /\ t1 = [u \in URLS |-> Request("none")]
    /\ t2 = [u \in URLS |-> Request("none")]
    /\ body = [u \in URLS |-> Unfetched]
    /\ page = [u \in URLS |-> NoPage]
    /\ clock = 0
    /\ startTime = 0
    /\ summary = NULL

InitWith(urlSets, documents) == InitOrigins(urlSets, documents, ProbeReplies)

\* A batch of any of the URLs, over the batch documents.
Init == InitWith(SUBSET URLS, BatchDocuments)

\* A batch of at most one URL, over every document.
InitPage == InitWith({{}, {"u1"}}, Documents)

\* A batch of at most one URL, over the origin documents.
InitOrigin == InitWith({{}, {"u1"}}, OriginDocuments)

\* A batch of any of the URLs, whose origins serve the empty shell alone.
InitShell == InitWith(SUBSET URLS, {{}})

\* A batch of at most one URL, whose origin serves the empty shell and answers
\* the prober in any way.
InitProbe == InitOrigins({{}, {"u1"}}, {{}}, AnyReplies)


\* --------------------------------------------------------- main: start-up

\* `if (!urls || urls.length === 0) throw new Error('No URLs provided.')`: the
\* catch rethrows and the finally block exits.
RejectInput ==
    /\ pc = "start"
    /\ input.urls = {}
    /\ pc' = "aborted"
    /\ UNCHANGED <<input, page, site, results, dataset, processedCount, t1, t2, body, clock,
                   startTime, summary>>

\* A variant of StartTier1 without the validation of urls; C8 is tested against it.
StartTier1Unchecked ==
    /\ pc = "start"
    /\ pc' = "tier1"
    /\ startTime' = clock
    /\ t1' = [u \in URLS |-> IF u \in input.urls THEN Request("queued") ELSE t1[u]]
    /\ UNCHANGED <<input, page, site, results, dataset, processedCount, t2, body, clock,
                   summary>>

\* startTime = Date.now(); cheerioCrawler.run(urls.map(url => ({ url })))
StartTier1 ==
    /\ pc = "start"
    /\ input.urls # {}
    /\ pc' = "tier1"
    /\ startTime' = clock
    /\ t1' = [u \in URLS |-> IF u \in input.urls THEN Request("queued") ELSE t1[u]]
    /\ UNCHANGED <<input, page, site, results, dataset, processedCount, t2, body, clock,
                   summary>>

\* ------------------------------------------------------------------ Tier 1

\* A request that is no longer (or never was) in its crawler's queue.
Terminal(req) == req.at \in {"none", "handled", "failed"}

\* A request that fails outside its handler is retried maxRequestRetries times;
\* then failedRequestHandler runs, which logs and records nothing.
RetryOrFail(req) ==
    IF req.retries < MaxRequestRetries
    THEN [at |-> "queued", retries |-> req.retries + 1, pending |-> NULL]
    ELSE Request("failed")

\* The static fetch of u fails (network, DNS, TLS, timeout).
T1FetchFails(u) ==
    /\ pc = "tier1"
    /\ t1[u].at = "queued"
    /\ t1' = [t1 EXCEPT ![u] = RetryOrFail(@)]
    /\ UNCHANGED <<input, page, site, pc, results, dataset, processedCount, t2, body,
                   clock, startTime, summary>>

\* The static fetch of u returns a document: the crawler calls the requestHandler.
T1Fetch(u, doc) ==
    /\ pc = "tier1"
    /\ t1[u].at = "queued"
    /\ t1' = [t1 EXCEPT ![u] = [@ EXCEPT !.at = "fetched"]]
    /\ body' = [body EXCEPT ![u] = doc]
    /\ UNCHANGED <<input, page, site, pc, results, dataset, processedCount, t2, clock,
                   startTime, summary>>

\* results.push(cleanResult) and the call of Dataset.pushData(cleanResult).
T1Push(u, result) ==
    /\ results' = Append(results, result)
    /\ t1' = [t1 EXCEPT ![u] = [@ EXCEPT !.at = "pushing", !.pending = result]]
    /\ clock' = clock + 1

\* The handler's tail once apis is known: build the record and emit it.
T1Emit(u, doc, apis) ==
    \E cleanResult \in {StaticResult(u, doc, apis, clock)} : T1Push(u, cleanResult)

\* The requestHandler runs on the fetched document up to its first suspension:
\* the probe race when probing is on, else the pushData of the record.
T1Analyze(u) ==
    /\ pc = "tier1"
    /\ t1[u].at = "fetched"
    /\ IF input.probeApiEndpoints
       THEN /\ t1' = [t1 EXCEPT ![u] = [@ EXCEPT !.at = "probing"]]
            /\ UNCHANGED <<results, clock>>
       ELSE T1Emit(u, body[u], NoApis)
    /\ UNCHANGED <<input, page, site, pc, dataset, processedCount, t2, body, startTime,
                   summary>>

\* The analysis throws inside the try block (before results.push): the catch
\* block pushes a failed record and calls Dataset.pushData with it.
T1AnalysisThrows(u) ==
    /\ pc = "tier1"
    /\ t1[u].at = "fetched"
    /\ LET failedResult == FailedResult(u, "analysis error", clock)
       IN /\ results' = Append(results, failedResult)
          /\ t1' = [t1 EXCEPT ![u] = [@ EXCEPT !.at = "pushingFailed",
                                               !.pending = failedResult]]
    /\ clock' = clock + 1
    /\ UNCHANGED <<input, page, site, pc, dataset, processedCount, t2, body, startTime,
                   summary>>

\* A variant of T1ProbeSettles in which the expiry of the 5 s budget rejects the
\* race, so that the catch block of the handler pushes a failed record; C17 is
\* tested against it.
T1ProbeExpiryThrows(u, replies, expired) ==
    /\ pc = "tier1"
    /\ t1[u].at = "probing"
    /\ IF expired
       THEN LET failedResult == FailedResult(u, "probe timeout", clock)
            IN /\ results' = Append(results, failedResult)
               /\ t1' = [t1 EXCEPT ![u] = [@ EXCEPT !.at = "pushingFailed",
                                                    !.pending = failedResult]]
               /\ clock' = clock + 1
       ELSE T1Emit(u, body[u], probeApiEndpoints(replies))
    /\ UNCHANGED <<input, page, site, pc, dataset, processedCount, t2, body, startTime,
                   summary>>

\* The probe race settles, with the prober's result or, the 5 s budget having
\* expired first, with the empty fallback.
T1ProbeSettles(u, replies, expired) ==
    /\ pc = "tier1"
    /\ t1[u].at = "probing"
    /\ T1Emit(u, body[u], IF expired THEN NoApis ELSE probeApiEndpoints(replies))
    /\ UNCHANGED <<input, page, site, pc, dataset, processedCount, t2, body, startTime,
                   summary>>

\* A variant of T1PushResolves that counts a record as processed only when it
\* lists a technology; C13 is tested against it.
T1PushCountsFindings(u) ==
    /\ pc = "tier1"
    /\ t1[u].at = "pushing"
    /\ dataset' = Append(dataset, t1[u].pending)
    /\ processedCount' = processedCount + (IF TechCount(t1[u].pending) > 0 THEN 1 ELSE 0)
    /\ t1' = [t1 EXCEPT ![u] = Request("handled")]
    /\ body' = [body EXCEPT ![u] = IF Terminal(t1'[u]) THEN Unfetched ELSE @]
    /\ UNCHANGED <<input, page, site, pc, results, t2, clock, startTime, summary>>

\* Dataset.pushData(cleanResult) resolves: processedCount++.
T1PushResolves(u) ==
    /\ pc = "tier1"
    /\ t1[u].at = "pushing"
    /\ dataset' = Append(dataset, t1[u].pending)
    /\ processedCount' = processedCount + 1
    /\ t1' = [t1 EXCEPT ![u] = Request("handled")]
    /\ body' = [body EXCEPT ![u] = IF Terminal(t1'[u]) THEN Unfetched ELSE @]
    /\ UNCHANGED <<input, page, site, pc, results, t2, clock, startTime, summary>>

\* A variant of T1FailedPushResolves that counts the failed record as processed;
\* C9 is tested against it.
T1FailedPushCounts(u) ==
    /\ pc = "tier1"
    /\ t1[u].at = "pushingFailed"
    /\ dataset' = Append(dataset, t1[u].pending)
    /\ processedCount' = processedCount + 1
    /\ t1' = [t1 EXCEPT ![u] = Request("handled")]
    /\ body' = [body EXCEPT ![u] = IF Terminal(t1'[u]) THEN Unfetched ELSE @]
    /\ UNCHANGED <<input, page, site, pc, results, t2, clock, startTime, summary>>

\* Dataset.pushData(failedResult) resolves: the handler returns.
T1FailedPushResolves(u) ==
    /\ pc = "tier1"
    /\ t1[u].at = "pushingFailed"
    /\ dataset' = Append(dataset, t1[u].pending)
    /\ t1' = [t1 EXCEPT ![u] = Request("handled")]
    /\ body' = [body EXCEPT ![u] = IF Terminal(t1'[u]) THEN Unfetched ELSE @]
    /\ UNCHANGED <<input, page, site, pc, results, processedCount, t2, clock, startTime,
                   summary>>

\* ------------------------------------------------------- main: Phase 2

\* spaUrls: the URLs of the success records of results that list no technology.
SpaUrls == {results[i].url : i \in {j \in DOMAIN results : IsSpa(results[j])}}

\* A variant of Phase2Runs that ignores usePlaywrightFallback; C1 is tested
\* against it.
SomeSpaUrl == SpaUrls # {}

\* `if (usePlaywrightFallback)` and `if (spaUrls.length > 0)`
Phase2Runs == input.usePlaywrightFallback /\ SpaUrls # {}

\* A variant of Tier1Done in which cheerioCrawler.run resolves as soon as one
\* request of the batch is handled or given up; C26 is tested against it.
Tier1DoneOnFirst ==
    /\ pc = "tier1"
    /\ \E u \in input.urls : Terminal(t1[u])
    /\ IF Phase2Runs
       THEN /\ pc' = "tier2"
            /\ t2' = [u \in URLS |-> IF u \in SpaUrls THEN Request("queued") ELSE t2[u]]
       ELSE /\ pc' = "finishing"
            /\ UNCHANGED t2
    /\ UNCHANGED <<input, page, site, results, dataset, processedCount, t1, body, clock,
                   startTime, summary>>

\* A variant of Tier1Done in which cheerioCrawler.run resolves only when no
\* request was given up; C16 is tested against it.
Tier1DoneAllHandled ==
    /\ pc = "tier1"
    /\ \A u \in URLS : t1[u].at \in {"none", "handled"}
    /\ IF Phase2Runs
       THEN /\ pc' = "tier2"
            /\ t2' = [u \in URLS |-> IF u \in SpaUrls THEN Request("queued") ELSE t2[u]]
       ELSE /\ pc' = "finishing"
            /\ UNCHANGED t2
    /\ UNCHANGED <<input, page, site, results, dataset, processedCount, t1, body, clock,
                   startTime, summary>>

\* cheerioCrawler.run resolves once every request is handled or given up.  With
\* the fallback enabled and spaUrls non-empty, playwrightCrawler.run starts.
Tier1Done ==
    /\ pc = "tier1"
    /\ \A u \in URLS : Terminal(t1[u])
    /\ IF Phase2Runs
       THEN /\ pc' = "tier2"
            /\ t2' = [u \in URLS |-> IF u \in SpaUrls THEN Request("queued") ELSE t2[u]]
       ELSE /\ pc' = "finishing"
            /\ UNCHANGED t2
    /\ UNCHANGED <<input, page, site, results, dataset, processedCount, t1, body, clock,
                   startTime, summary>>

\* ------------------------------------------------------------------ Tier 2

\* The browser launch or the navigation of u fails before the handler runs: the
\* request is retried, then given up (no failedRequestHandler is set).
T2NavigationFails(u) ==
    /\ pc = "tier2"
    /\ t2[u].at = "queued"
    /\ t2' = [t2 EXCEPT ![u] = RetryOrFail(@)]
    /\ UNCHANGED <<input, page, site, pc, results, dataset, processedCount, t1, body, clock,
                   startTime, summary>>

\* The browser opens the page of u: the crawler calls the requestHandler.
T2Navigate(u, doc, window) ==
    /\ pc = "tier2"
    /\ t2[u].at = "queued"
    /\ t2' = [t2 EXCEPT ![u] = [@ EXCEPT !.at = "loaded"]]
    /\ page' = [page EXCEPT ![u] = [doc |-> doc, window |-> window]]
    /\ UNCHANGED <<input, site, pc, results, dataset, processedCount, t1, body, clock,
                   startTime, summary>>

\* A variant of T2RenderThrows whose catch block turns the record of u into a
\* failed record; C7 is tested against it.
T2RenderFailsRecord(u) ==
    /\ pc = "tier2"
    /\ t2[u].at = "loaded"
    /\ FindIndex(results, u) # 0
    /\ results' = [results EXCEPT
                      ![FindIndex(results, u)] = FailedResult(u, "browser error", clock)]
    /\ t2' = [t2 EXCEPT ![u] = Request("handled")]
    /\ page' = [page EXCEPT ![u] = NoPage]
    /\ UNCHANGED <<input, site, pc, dataset, processedCount, t1, body, clock, startTime,
                   summary>>

\* waitForLoadState, page.content() or the runtime-global probe throws: the
\* catch block logs and the handler returns.
T2RenderThrows(u) ==
    /\ pc = "tier2"
    /\ t2[u].at = "loaded"
    /\ t2' = [t2 EXCEPT ![u] = Request("handled")]
    /\ page' = [page EXCEPT ![u] = NoPage]
    /\ UNCHANGED <<input, site, pc, results, dataset, processedCount, t1, body, clock,
                   startTime, summary>>

\* results[idx] is updated in place and Dataset.pushData(cleanResult) is called.
T2Update(u, idx, cleanResult) ==
    /\ results' = [results EXCEPT ![idx] = cleanResult]
    /\ t2' = [t2 EXCEPT ![u] = [@ EXCEPT !.at = "pushing", !.pending = cleanResult]]
    /\ UNCHANGED page

\* The handler scans the rendered document and merges the runtime globals; with
\* no record of the URL in results it returns without writing.
T2Render(u) ==
    /\ pc = "tier2"
    /\ t2[u].at = "loaded"
    /\ IF FindIndex(results, u) # 0
       THEN \E cleanResult \in {BrowserResult(results[FindIndex(results, u)],
                                                page[u].doc, page[u].window)} :
               T2Update(u, FindIndex(results, u), cleanResult)
       ELSE /\ t2' = [t2 EXCEPT ![u] = Request("handled")]
            /\ page' = [page EXCEPT ![u] = NoPage]
            /\ UNCHANGED results
    /\ UNCHANGED <<input, site, pc, dataset, processedCount, t1, body, clock, startTime,
                   summary>>

\* Dataset.pushData(cleanResult) resolves.
T2PushResolves(u) ==
    /\ pc = "tier2"
    /\ t2[u].at = "pushing"
    /\ dataset' = Append(dataset, t2[u].pending)
    /\ t2' = [t2 EXCEPT ![u] = Request("handled")]
    /\ page' = [page EXCEPT ![u] = NoPage]
    /\ UNCHANGED <<input, site, pc, results, processedCount, t1, body, clock, startTime,
                   summary>>

\* Dataset.pushData(cleanResult) rejects: the catch block logs.
T2PushRejects(u) ==
    /\ pc = "tier2"
    /\ t2[u].at = "pushing"
    /\ t2' = [t2 EXCEPT ![u] = Request("handled")]
    /\ page' = [page EXCEPT ![u] = NoPage]
    /\ UNCHANGED <<input, site, pc, results, dataset, processedCount, t1, body, clock,
                   startTime, summary>>

\* playwrightCrawler.run resolves once every request is handled or given up.
Tier2Done ==
    /\ pc = "tier2"
    /\ \A u \in URLS : Terminal(t2[u])
    /\ pc' = "finishing"
    /\ UNCHANGED <<input, page, site, results, dataset, processedCount, t1, t2, body, clock,
                   startTime, summary>>

\* --------------------------------------------------------- main: the exit

\* Actor.fail when processedCount is 0, else Actor.setValue('OUTPUT_SUMMARY').
Finish ==
    /\ pc = "finishing"
    /\ IF processedCount = 0
       THEN /\ pc' = "failed"
            /\ UNCHANGED summary
       ELSE /\ pc' = "succeeded"
            /\ summary' = [urlsAnalyzed |-> processedCount,
                           runtime |-> clock - startTime,
                           success |-> TRUE]
    /\ UNCHANGED <<input, page, site, results, dataset, processedCount, t1, t2, body, clock,
                   startTime>>

\* ---------------------------------------------------------- specifications

Tier1Step ==
    \E u \in URLS :
        \/ T1FetchFails(u)
        \/ \E doc \in site.documents : T1Fetch(u, doc)
        \/ T1Analyze(u)
        \/ T1AnalysisThrows(u)
        \/ \E replies \in site.replies, expired \in BOOLEAN :
              T1ProbeSettles(u, replies, expired)
        \/ T1PushResolves(u)
        \/ T1FailedPushResolves(u)

Tier2Step ==
    \E u \in URLS :
        \/ T2NavigationFails(u)
        \/ T2RenderThrows(u)
        \/ \E doc \in site.documents, window \in SUBSET WindowProps :
              T2Navigate(u, doc, window)
        \/ T2Render(u)
        \/ T2PushResolves(u)

\* The sink rejects the write of an updated record.
SinkFault == \E u \in URLS : T2PushRejects(u)

Next ==
    \/ RejectInput
    \/ StartTier1
    \/ Tier1Step
    \/ Tier1Done
    \/ Tier2Step
    \/ Tier2Done
    \/ Finish

\* The run with a sink whose writes always succeed.
Spec == Init /\ [][Next]_vars

NextFaultySink == Next \/ SinkFault

\* The run with a sink that may reject the write of an updated record.
SpecFaultySink == Init /\ [][NextFaultySink]_vars

\* The run of one URL over every document.
SpecPage == InitPage /\ [][Next]_vars

\* The run of one URL over the origin documents.
SpecOrigin == InitOrigin /\ [][Next]_vars

\* One URL whose origin answers the prober in any way.
SpecProbe == InitProbe /\ [][Next]_vars

\* The batch under the scheduling of the crawlers and of the event loop: a
\* queued request is eventually taken, a pending promise eventually settles
\* (every fetch, navigation and probe is under a timeout), the main program
\* resumes when its await resolves.
SpecLive == InitShell /\ [][Next]_vars /\ WF_vars(Next)


\* ------------------------------------------------------------------ claims

\* The records held by the results array and those written to the sink.
ResultRecords == {results[i] : i \in DOMAIN results}

SinkRecords == {dataset[i] : i \in DOMAIN dataset}

\* The ScanResults (the success records) of results and of the sink.
ScanResults == {r \in ResultRecords \cup SinkRecords : r.status = "success"}

\* The records of url in the sink.
SinkRecordsOf(url) == {r \in SinkRecords : r.url = url}

\* The records Tier 1 wrote to the sink for url.
Tier1SinkRecords(url) ==
    {r \in SinkRecordsOf(url) : r.status = "failed" \/ r.detectionMethod = "static"}

\* The technologies of a record, each with its category.
TechSet(r) ==
    UNION {{<<c, r.technologies[c][i]>> : i \in DOMAIN r.technologies[c]} :
              c \in DOMAIN r.technologies}

\* The main program is past the Phase 2 selection.
PastSelection == pc \in {"tier2", "finishing", "succeeded", "failed"}

\* The run has ended.
Ended == pc \in {"aborted", "succeeded", "failed"}

\* C1: a URL is handed to Tier 2 if and only if the selection has run, the
\* fallback is enabled, and its Tier-1 record is a success record that lists no
\* technology in any category; a URL with a Tier-1 technology, and every URL
\* when the fallback is disabled, is never handed to Tier 2.
C1_Tier2Selection ==
    \A u \in URLS :
        t2[u].at # "none" <=>
            /\ PastSelection
            /\ input.usePlaywrightFallback
            /\ \E r \in Tier1SinkRecords(u) : r.status = "success" /\ TechSet(r) = {}

\* C1 witness: a batch of two URLs with the fallback enabled has ended; u1, whose
\* Tier-1 record lists nothing, went through Tier 2 and u2, whose Tier-1 record
\* lists a technology, did not.
C1_Witness ==
    /\ pc = "succeeded"
    /\ input.usePlaywrightFallback
    /\ t2["u1"].at = "handled"
    /\ t2["u2"].at = "none"
    /\ \E r \in Tier1SinkRecords("u2") : r.status = "success" /\ TechSet(r) # {}

\* C2: technologies.cms of every ScanResult, static or browser, in results and
\* in the sink, holds at most one entry.
C2_AtMostOneCms == \A r \in ScanResults : Len(r.technologies.cms) <= 1

\* The matches of a record in the cms category.
CmsMatches(r) ==
    {i \in DOMAIN r.detectionDetails.matches :
        r.detectionDetails.matches[i].category = "cms"}

\* C2 witness: a browser record whose scan found two CMS
\* candidates above the threshold and whose technologies.cms lists one.
C2_Witness ==
    \E r \in SinkRecords :
        /\ r.status = "success"
        /\ r.detectionMethod = "browser"
        /\ Cardinality(CmsMatches(r)) = 2
        /\ Len(r.technologies.cms) = 1


\* No two entries of the list are equal when compared case-insensitively.
NoCaseDuplicates(list) ==
    \A i, j \in DOMAIN list : i < j => toLowerCase(list[i]) # toLowerCase(list[j])

\* The entries of arr that no earlier entry equals ignoring case, in their order
\* and with their own casing.
FirstSeen(arr) ==
    LET first(i) == \A j \in 1..(i - 1) : toLowerCase(arr[j]) # toLowerCase(arr[i])
        kept == SelectSeq([i \in DOMAIN arr |-> i], first)
    IN [k \in DOMAIN kept |-> arr[kept[k]]]

MaxArrayLen == 3

\* Names in several casings.
CasedNames ==
    { <<"R","e","a","c","t">>, <<"r","e","a","c","t">>, <<"R","E","A","C","T">>,
      <<"V","u","e">> }

\* Every array of at most MaxArrayLen of these names.
CasedArrays == UNION {[1..n -> CasedNames] : n \in 0..MaxArrayLen}

\* deduplicateArray keeps, of the entries equal ignoring case, the first seen.
DedupKeepsFirstSeen == \A arr \in CasedArrays : deduplicateArray(arr) = FirstSeen(arr)

\* C3: no technologies.* list of a ScanResult, static or browser, in results or in
\* the sink, holds two entries that are equal when compared case-insensitively;
\* and of entries equal ignoring case deduplicateArray keeps the first seen.
C3_NoCaseDuplicates ==
    /\ \A r \in ScanResults :
          \A c \in DOMAIN r.technologies : NoCaseDuplicates(r.technologies[c])
    /\ DedupKeepsFirstSeen

\* C3 witness: a browser record in the sink whose rendered markup and whose window
\* both gave React (its match has the sources html and window), and whose
\* technologies.frontend lists React once.
C3_Witness ==
    \E r \in SinkRecords :
        /\ r.status = "success"
        /\ r.detectionMethod = "browser"
        /\ r.technologies.frontend = << <<"R","e","a","c","t">> >>
        /\ \E i \in DOMAIN r.detectionDetails.matches :
              LET m == r.detectionDetails.matches[i]
              IN /\ m.key = "react"
                 /\ m.sources = <<SourceLabel["html"], WindowLabel>>

\* The threshold C4 states for a category.
StatedThreshold(category) == IF category = "cms" THEN 3 ELSE 2

\* C4: in every ScanResult, static or browser, every match of detectionDetails
\* has a confidence of at least its category's threshold (3 for cms, 2 for the
\* others), and every entry of technologies.* is the formatted name of such a
\* match of that category: nothing below its threshold is recorded.
C4_AboveThreshold ==
    \A r \in ScanResults :
        LET matches == r.detectionDetails.matches
        IN /\ \A i \in DOMAIN matches :
                 matches[i].confidence >= StatedThreshold(matches[i].category)
           /\ \A c \in DOMAIN r.technologies :
                 \A k \in DOMAIN r.technologies[c] :
                    \E i \in DOMAIN matches :
                       /\ matches[i].category = c
                       /\ matches[i].confidence >= StatedThreshold(c)
                       /\ r.technologies[c][k] \in
                             {formatTechName(matches[i].displayName, matches[i].version),
                              formatTechName(matches[i].displayName, NULL)}

\* C4 witness: the fetched document holds <div id="root"> (React scores 2, its
\* threshold) and the WordPress generator meta tag (WordPress scores 2, below the
\* cms threshold); the record being written lists React and records nothing of
\* WordPress.
C4_Witness ==
    /\ t1["u1"].at = "pushing"
    /\ body["u1"] = {2, 3}
    /\ LET r == t1["u1"].pending
       IN /\ r.technologies.frontend = << <<"R","e","a","c","t">> >>
          /\ r.technologies.cms = <<>>
          /\ \A i \in DOMAIN r.detectionDetails.matches :
                r.detectionDetails.matches[i].key # "wordpress"
          /\ \E i \in DOMAIN r.detectionDetails.matches :
                /\ r.detectionDetails.matches[i].key = "react"
                /\ r.detectionDetails.matches[i].confidence = 2


\* The positions of the sink that hold a record of url.
SinkIndexesOf(url) == {i \in DOMAIN dataset : dataset[i].url = url}

\* C5: the sink never holds two records of one URL (a URL that goes through
\* Tier 2 does not leave a Tier-1 record and a Tier-2 record), and a record is
\* in the sink only once it is final: every sink record is the record results
\* holds.  (That a URL has a record at all is the subject of C6.)
C5_OneFinalRecordPerUrl ==
    /\ \A u \in URLS : Cardinality(SinkIndexesOf(u)) <= 1
    /\ \A i \in DOMAIN dataset : dataset[i] \in ResultRecords

\* C6: when the run has ended, every URL whose Tier-1 request was given up after
\* its fetch failed has a record {url, status: "failed", error, scannedAt} in
\* the sink.
C6_FetchFailureRecorded ==
    pc \in {"succeeded", "failed"} =>
        \A u \in input.urls :
            t1[u].at = "failed" =>
                \E r \in SinkRecordsOf(u) :
                    r.status = "failed" /\ DOMAIN r = {"url", "status", "error", "scannedAt"}

\* The record of url in a results array.
RecordOf(list, url) == list[FindIndex(list, url)]

\* A step in which Tier 2 fails for u: its request leaves the state it was in
\* without the handler being called or the write being awaited, and nothing is
\* written to the sink.  The step is a failed navigation, a throw while
\* rendering, or, when the request was waiting for its write (WriteFails), a
\* rejected write.
Tier2Fails(u) ==
    /\ pc = "tier2"
    /\ t2'[u] # t2[u]
    /\ t2'[u].at \notin {"loaded", "pushing"}
    /\ dataset' = dataset

WriteFails(u) == Tier2Fails(u) /\ t2[u].at = "pushing"

\* The sink holds no Tier-2 record of url.
SinkHoldsTier1Only(url) ==
    \A r \in SinkRecordsOf(url) : r.status = "failed" \/ r.detectionMethod = "static"

\* C7 as stated: whatever step of Tier 2 fails for a URL, the write of the
\* updated record included, the step changes no record and the URL's record in
\* results is a success record with detectionMethod static.
C7_StaysTier1 ==
    [][\A u \in URLS :
          Tier2Fails(u) =>
              /\ results' = results
              /\ RecordOf(results', u).status = "success"
              /\ RecordOf(results', u).detectionMethod = "static"]_vars

\* C7 amended: a failing step of Tier 2 changes no record, never leaves a failed
\* record and never writes a Tier-2 record to the sink; when the failing step
\* comes before the update, the URL's record in results is the Tier-1 result
\* (detectionMethod static); when it is the write of the updated record, the
\* record in results is the completely updated browser record whose write was
\* rejected.
C7_StaysTier1UnlessWriteFails ==
    [][\A u \in URLS :
          Tier2Fails(u) =>
              /\ results' = results
              /\ RecordOf(results', u).status = "success"
              /\ SinkHoldsTier1Only(u)'
              /\ IF WriteFails(u)
                 THEN /\ RecordOf(results', u).detectionMethod = "browser"
                      /\ RecordOf(results', u) = t2[u].pending
                 ELSE RecordOf(results', u).detectionMethod = "static"]_vars

\* C7 witness: the write of the updated record of u1 was rejected: the request
\* is handled, results holds the browser record and the sink holds none.
C7_Witness ==
    /\ t2["u1"].at = "handled"
    /\ FindIndex(results, "u1") # 0
    /\ RecordOf(results, "u1").status = "success"
    /\ RecordOf(results, "u1").detectionMethod = "browser"
    /\ SinkHoldsTier1Only("u1")

\* C8: with an empty urls input the main program can only abort: it goes from
\* the start to the abort, no Tier-1 or Tier-2 request is ever queued, no record
\* is written to results or to the sink, and no summary is published.
C8_EmptyInputAborts ==
    input.urls = {} =>
        /\ pc \in {"start", "aborted"}
        /\ pc = "start" => ENABLED RejectInput /\ ~ENABLED StartTier1
        /\ \A u \in URLS : t1[u].at = "none" /\ t2[u].at = "none"
        /\ results = <<>>
        /\ dataset = <<>>
        /\ summary = NULL

\* C8 witness: the run has aborted on an empty urls input.
C8_Witness == pc = "aborted" /\ input.urls = {}

\* The URLs with a success record among the records.
SuccessUrls(records) == {u \in URLS : \E r \in records : r.url = u /\ r.status = "success"}

\* C9: the run ends in failure exactly when no URL has a success record;
\* otherwise it ends publishing {urlsAnalyzed, runtime, success: true} with
\* urlsAnalyzed the number of URLs that have a success record (in results and in
\* the sink alike); a summary is published in no other case.
C9_ExitStatus ==
    /\ pc = "failed" => SuccessUrls(SinkRecords) = {} /\ SuccessUrls(ResultRecords) = {}
    /\ pc = "aborted" => SuccessUrls(SinkRecords) = {} /\ SuccessUrls(ResultRecords) = {}
    /\ pc = "succeeded" =>
          /\ SuccessUrls(SinkRecords) # {}
          /\ summary = [urlsAnalyzed |-> Cardinality(SuccessUrls(SinkRecords)),
                        runtime |-> clock - startTime,
                        success |-> TRUE]
          /\ summary.urlsAnalyzed = Cardinality(SuccessUrls(ResultRecords))
    /\ pc # "succeeded" => summary = NULL

\* C9 witness: a batch of two URLs ended with one success record and published
\* urlsAnalyzed = 1; and the other URL has a failed record.
C9_Witness ==
    /\ pc = "succeeded"
    /\ input.urls = URLS
    /\ summary.urlsAnalyzed = 1
    /\ \E r \in SinkRecords : r.status = "failed"

\* The keys of the matches of a record.
MatchKeys(r) ==
    {r.detectionDetails.matches[i].key : i \in DOMAIN r.detectionDetails.matches}

\* C10: every browser record, in results or in the sink, has a Tier-1 success
\* record of the same URL in the sink, and lists every technology (and holds a
\* match of every key) that this Tier-1 record does.
C10_MergeMonotonic ==
    \A r \in ScanResults :
        r.detectionMethod = "browser" =>
            /\ \E d \in Tier1SinkRecords(r.url) : d.status = "success"
            /\ \A d \in Tier1SinkRecords(r.url) :
                  d.status = "success" =>
                      TechSet(d) \subseteq TechSet(r) /\ MatchKeys(d) \subseteq MatchKeys(r)

\* C10 witness: the sink holds the Tier-1 record of u1 and its browser record,
\* which lists a technology and holds the matches of two keys.
C10_Witness ==
    \E r \in SinkRecordsOf("u1") :
        /\ r.status = "success"
        /\ r.detectionMethod = "browser"
        /\ TechSet(r) # {}
        /\ Cardinality(MatchKeys(r)) = 2
        /\ \E d \in Tier1SinkRecords("u1") : d.status = "success"

\* "React", the name extractBrowserTechnologies gives the global property React.
S_React == <<"R","e","a","c","t">>

\* The browser records of a set of records.
BrowserRecords(records) ==
    {r \in records : r.status = "success" /\ r.detectionMethod = "browser"}

\* C12: while the record of a rendered page whose window defines React is being
\* written, the fallback is on, Tier 1 wrote a record without any technology
\* for the URL, and the URL's record in results, which is the record being
\* written, lists "React" under frontend with detectionMethod "browser"; and
\* once the run has ended every browser record is in the sink as results holds it.
C12_RuntimeReactListed ==
    /\ \A u \in URLS :
          (t2[u].at = "pushing" /\ "React" \in page[u].window) =>
              /\ input.usePlaywrightFallback
              /\ \E d \in Tier1SinkRecords(u) : d.status = "success" /\ TechSet(d) = {}
              /\ Includes(RecordOf(results, u).technologies.frontend, S_React)
              /\ RecordOf(results, u).detectionMethod = "browser"
              /\ t2[u].pending = RecordOf(results, u)
    /\ pc \in {"succeeded", "failed"} =>
          BrowserRecords(ResultRecords) = BrowserRecords(SinkRecords)

\* C12 witness: the run has ended and the sink holds a browser record of u1
\* whose only technology is the "React" the runtime globals gave.
C12_Witness ==
    /\ pc = "succeeded"
    /\ \E r \in BrowserRecords(SinkRecordsOf("u1")) :
          /\ r.technologies.frontend = <<S_React>>
          /\ \A i \in DOMAIN r.detectionDetails.matches :
                r.detectionDetails.matches[i].sources = <<WindowLabel>>

\* A record that lists no technology in any category.
ListsNothing(r) == \A c \in DOMAIN r.technologies : r.technologies[c] = <<>>

\* C13: the record built from a fetched document that is empty (no element, no
\* header) is a success record with detectionMethod "static" that lists nothing
\* and reports no WAF; and when a run with rendering disabled has ended, every
\* success record that lists nothing is still a static record, is in the sink,
\* no URL was rendered, and the run has succeeded with at least one URL analyzed.
C13_EmptyPageSucceeds ==
    /\ \A u \in URLS :
          (t1[u].at = "pushing" /\ body[u] = {}) =>
              /\ t1[u].pending \in ResultRecords
              /\ t1[u].pending.status = "success"
              /\ t1[u].pending.detectionMethod = "static"
              /\ ListsNothing(t1[u].pending)
              /\ t1[u].pending.detectionDetails.matches = <<>>
              /\ ~t1[u].pending.waf.detected
    /\ (pc \in {"succeeded", "failed"} /\ ~input.usePlaywrightFallback) =>
          \A r \in ResultRecords :
              (r.status = "success" /\ ListsNothing(r)) =>
                  /\ r.detectionMethod = "static"
                  /\ r \in SinkRecords
                  /\ t2[r.url].at = "none"
                  /\ pc = "succeeded"
                  /\ summary.success /\ summary.urlsAnalyzed >= 1

\* C13 witness: a run over u1 alone with rendering disabled has succeeded, and
\* the only record of the sink is a static success record that lists nothing.
C13_Witness ==
    /\ pc = "succeeded"
    /\ ~input.usePlaywrightFallback
    /\ input.urls = {"u1"}
    /\ Len(dataset) = 1
    /\ dataset[1].status = "success"
    /\ dataset[1].detectionMethod = "static"
    /\ ListsNothing(dataset[1])

\* The greatest score a provider of WAF_PATTERNS can reach: cloudflare with its
\* four headers, three cookies, server banner and body pattern.
MaxWafScore == 21

S_Cloudflare == <<"C","l","o","u","d","f","l","a","r","e">>

\* The success records of results and of the sink that report a WAF.
WafRecords == {r \in ScanResults : r.waf.detected}

\* C14: the record built from a document whose response carries cf-ray and
\* cf-cache-status, and no akamai header, reports the WAF Cloudflare with score
\* 6 and confidence high; every record that reports a WAF has a positive score
\* and the tier of that score; the tier of a score is high from 5, medium from
\* 3, low below.
C14_CloudflareHigh ==
    /\ \A u \in URLS :
          (t1[u].at = "pushing" /\ {7, 10} \subseteq body[u] /\ 11 \notin body[u]) =>
              t1[u].pending.waf = [detected |-> TRUE, provider |-> S_Cloudflare,
                                   confidence |-> "high", score |-> 6]
    /\ \A r \in WafRecords :
          r.waf.score > 0 /\ r.waf.confidence = WafConfidence(r.waf.score)
    /\ \A score \in 0..MaxWafScore :
          WafConfidence(score) = IF score >= 5 THEN "high"
                                 ELSE IF score >= 3 THEN "medium" ELSE "low"

\* C14 witness: the sink holds the record of a page served with cf-ray and
\* cf-cache-status alone.
C14_Witness ==
    \E r \in SinkRecordsOf("u1") :
        /\ r.status = "success"
        /\ r.waf.detected
        /\ r.waf.score = 6
        /\ r.server.software = S_Unknown

S_Wordpress63 == <<"W","o","r","d","p","r","e","s","s"," ","6",".","3">>

\* The match of a key in a record, NULL when it has none.
MatchOfKey(r, key) ==
    IF MatchIndex(r.detectionDetails.matches, key) = 0 THEN NULL
    ELSE r.detectionDetails.matches[MatchIndex(r.detectionDetails.matches, key)]

\* C15: the record built from a document that holds
\* <meta name="generator" content="WordPress 6.3"> and a script whose src holds
\* wp-content/themes/x.js lists cms = ["Wordpress 6.3"], and its wordpress match
\* has category cms and a confidence of at least 5.
C15_WordPressGenerator ==
    \A u \in URLS :
        (t1[u].at = "pushing" /\ body[u] = {3, 9}) =>
            /\ t1[u].pending.technologies.cms = <<S_Wordpress63>>
            /\ MatchOfKey(t1[u].pending, "wordpress") # NULL
            /\ MatchOfKey(t1[u].pending, "wordpress").category = "cms"
            /\ MatchOfKey(t1[u].pending, "wordpress").confidence >= 5

\* The URLs that have a success record in results.
Succeeded == SuccessUrls(ResultRecords)

\* Every request of the batch is in a terminal state.
AllTerminal ==
    \A u \in input.urls : Terminal(t1[u]) /\ Terminal(t2[u])

\* C16: whatever fails, the run ends; it ends past the crawlers only with every
\* request of the batch handled or given up; it is aborted exactly for an empty
\* list of URLs, fails exactly when no URL has succeeded, and succeeds exactly
\* when one has.
C16_FailuresIsolated ==
    /\ <>Ended
    /\ [](pc \in {"finishing", "succeeded", "failed"} => AllTerminal)
    /\ [](Ended => /\ pc = "aborted" <=> input.urls = {}
                   /\ pc = "succeeded" <=> Succeeded # {}
                   /\ pc = "failed" <=> (input.urls # {} /\ Succeeded = {}))

\* C16 witness: the run has succeeded on u2 although the fetch of u1 was given up.
C16_Witness ==
    /\ pc = "succeeded"
    /\ input.urls = {"u1", "u2"}
    /\ t1["u1"].at = "failed"
    /\ Succeeded = {"u2"}

\* ---------------------------------------------------------------- C17

\* The reply map of an origin none of whose endpoints answers the prober.
Silent == [i \in DOMAIN API_ENDPOINTS |-> NoReply]

\* The step that ends the probe of u pushes a record of status success whose
\* apis is what the prober returns for some reply map of the origin, or the
\* empty fallback.
ProbeEndsInSuccess(u) ==
    (t1[u].at = "probing" /\ t1'[u].at # "probing")
        => /\ t1'[u].at = "pushing"
           /\ t1'[u].pending.status = "success"
           /\ t1'[u].pending.url = u
           /\ results' = Append(results, t1'[u].pending)
           /\ t1'[u].pending.apis \in
                  {NoApis} \cup {probeApiEndpoints(replies) : replies \in site.replies}

\* C17: a probe request that fails or times out leaves its path out of the
\* endpoints; whatever the endpoints do, the step that ends the probe of a URL
\* pushes a record of status success; and while a URL is probing the race can
\* settle through its 5 s fallback with no probe request completing, giving
\* apis = {graphql: false, rest: false, endpoints: []}.
C17_ProbeNeverFails ==
    /\ [](\A replies \in site.replies : \A i \in DOMAIN API_ENDPOINTS :
             ~replies[i].answered
                 => \A k \in DOMAIN probeApiEndpoints(replies).endpoints :
                        probeApiEndpoints(replies).endpoints[k] # API_ENDPOINTS[i])
    /\ [][\A u \in URLS : ProbeEndsInSuccess(u)]_vars
    /\ [](\A u \in URLS : t1[u].at = "probing" => ENABLED T1ProbeSettles(u, Silent, TRUE))

\* A record of status success with the empty apis is delivered for a URL that
\* was probed.
C17_Witness ==
    /\ input.probeApiEndpoints
    /\ \E i \in DOMAIN dataset :
          /\ dataset[i].url = "u1"
          /\ dataset[i].status = "success"
          /\ dataset[i].apis = NoApis

\* ---------------------------------------------------------------- C18

\* The well-known paths whose request got a response of status below 400.
Discovered(replies) ==
    {i \in DOMAIN API_ENDPOINTS : replies[i].answered /\ replies[i].statusCode < 400}

\* What C18 says of the prober's result for one reply map.
ProbedAsClaimed(replies, apis) ==
    /\ {apis.endpoints[k] : k \in DOMAIN apis.endpoints}
           = {API_ENDPOINTS[i] : i \in Discovered(replies)}
    /\ \A j, k \in DOMAIN apis.endpoints :
           j # k => toLowerCase(apis.endpoints[j]) # toLowerCase(apis.endpoints[k])
    /\ apis.graphql <=> \E i \in Discovered(replies) :
                            StrIncludes(API_ENDPOINTS[i], S_graphql)
    /\ apis.rest <=> \E i \in Discovered(replies) :
                         StrIncludes(replies[i].contentType, S_json)

\* C18: when the handler calls the prober, for every reply map the origin may
\* give, the endpoints of the prober's result are exactly the well-known paths answered with a status below 400,
\* without two entries equal ignoring case; graphql is true iff a discovered
\* path contains "graphql"; rest is true iff the content type of a discovered
\* response contains "application/json".
C18_ProberDiscovers ==
    (\E u \in URLS : t1[u].at = "probing")
        => \A replies \in site.replies :
               ProbedAsClaimed(replies, probeApiEndpoints(replies))

\* A record is delivered whose apis come from a probe in which "/api" answered
\* below 400 with a JSON content type and nothing else was discovered.
C18_Witness ==
    \E i \in DOMAIN dataset :
        /\ dataset[i].status = "success"
        /\ dataset[i].apis = [graphql |-> FALSE, rest |-> TRUE,
                              endpoints |-> <<API_ENDPOINTS[1]>>]

\* ---------------------------------------------------------------- C19

PrimaryCategories == {"cms", "frontend", "hosting", "cdn"}

\* The largest score among the primary picks of a verdict, 0 when it has none.
TopPrimaryScore(verdict) ==
    LET scores == {ConfidenceOrZero(verdict.primary[c]) : c \in PrimaryCategories}
    IN CHOOSE m \in scores : \A s \in scores : m >= s

\* C19: the confidence of the verdict of every record is the tier the WAF
\* scorer gives to the record's largest primary-category score: high from 5,
\* medium from 3, low below.
C19_VerdictTiersAsWaf ==
    \A r \in ScanResults :
        /\ r.verdict.confidence = WafConfidence(TopPrimaryScore(r.verdict))
        /\ r.verdict.confidence =
               IF TopPrimaryScore(r.verdict) >= 5 THEN "high"
               ELSE IF TopPrimaryScore(r.verdict) >= 3 THEN "medium" ELSE "low"

\* ---------------------------------------------------------------- C20

\* The score of each WAF provider on a document.
WafScoresOf(doc) ==
    [i \in DOMAIN WAF_PATTERNS |->
        WafScore(WAF_PATTERNS[i], HeadersOf(doc), CookiesOf(doc), WafHtmlOf(doc))]

\* The first provider, in signature order, that has the largest score.
FirstTopProvider(scores) ==
    CHOOSE i \in DOMAIN scores :
        /\ \A j \in DOMAIN scores : scores[i] >= scores[j]
        /\ \A j \in 1..(i - 1) : scores[j] < scores[i]

\* C20: the record built from a document reports no WAF when no provider
\* scores above 0, and otherwise the one provider that has the largest score,
\* the first of them in signature order when several share it.
C20_FirstTopProvider ==
    \A u \in URLS :
        (t1[u].at = "pushing" /\ t1[u].pending.status = "success") =>
            LET scores == WafScoresOf(body[u])
                top == FirstTopProvider(scores)
                waf == t1[u].pending.waf
            IN IF scores[top] = 0 THEN ~waf.detected
               ELSE /\ waf.detected
                    /\ waf.score = scores[top]
                    /\ waf.provider = Capitalize(WafSpell[WAF_PATTERNS[top]])

\* ---------------------------------------------------------------- C21

\* The position of a key in the signature corpus.
CorpusIndex(key) == CHOOSE i \in DOMAIN TECH_PATTERNS : TECH_PATTERNS[i] = key

\* Whether the match at i is the winner among the cms matches of the record: no
\* cms match has a higher confidence, and none of the same confidence is
\* declared earlier.
CmsWinner(r, i) ==
    /\ i \in CmsMatches(r)
    /\ \A j \in CmsMatches(r) :
          LET mine == r.detectionDetails.matches[i]
              other == r.detectionDetails.matches[j]
          IN \/ other.confidence < mine.confidence
             \/ /\ other.confidence = mine.confidence
                /\ CorpusIndex(mine.key) <= CorpusIndex(other.key)

\* C21: in every record with a CMS candidate, technologies.cms is the one entry
\* of the candidate of highest confidence, the earliest declared among equals,
\* and verdict.primary.cms names that candidate.
C21_TopCmsWins ==
    \A r \in ScanResults : \A i \in DOMAIN r.detectionDetails.matches :
        CmsWinner(r, i) =>
            /\ r.technologies.cms =
                   <<formatTechName(r.detectionDetails.matches[i].displayName,
                                    r.detectionDetails.matches[i].version)>>
            /\ r.verdict.primary.cms # NULL
            /\ r.verdict.primary.cms.key = r.detectionDetails.matches[i].key
            /\ r.verdict.primary.cms.confidence = r.detectionDetails.matches[i].confidence

\* A Tier-1 record is delivered whose wordpress and drupal candidates have the
\* same confidence and whose technologies.cms lists Wordpress.
C21_Witness ==
    \E r \in SinkRecords :
        /\ r.status = "success"
        /\ r.detectionMethod = "static"
        /\ MatchOfKey(r, "wordpress") # NULL
        /\ MatchOfKey(r, "drupal") # NULL
        /\ MatchOfKey(r, "wordpress").confidence = MatchOfKey(r, "drupal").confidence
        /\ r.technologies.cms = <<humanizeTechName(Spell["wordpress"])>>

\* ---------------------------------------------------------------- C22

\* C22: no record keeps more than one technology of the cms category, in
\* technologies.cms or in detectionDetails.matches.
C22_LosersSurviveNowhere ==
    \A r \in ScanResults :
        /\ Len(r.technologies.cms) <= 1
        /\ Cardinality(CmsMatches(r)) <= 1

\* ---------------------------------------------------------------- C23

\* Whether the list holds an entry for the match: its display name, alone or
\* followed by its version.
ListsMatch(list, m) ==
    \E i \in DOMAIN list :
        \/ list[i] = m.displayName
        \/ list[i] = formatTechName(m.displayName, m.version)

\* C23: in every browser record, each match of a category other than cms has
\* an entry in the technologies list of its category.
C23_RuntimeTechListed ==
    \A r \in BrowserRecords(ScanResults) :
        \A i \in DOMAIN r.detectionDetails.matches :
            LET m == r.detectionDetails.matches[i]
            IN m.category # "cms" => ListsMatch(r.technologies[m.category], m)

\* ---------------------------------------------------------------- C24

\* The confidence the scan of the rendered document records for a key, 0 when
\* it records none.
RenderedConfidence(doc, key) ==
    LET found == SelectSeq(analyzeStaticResponse(doc).techMatches,
                           LAMBDA m : m.key = key)
    IN IF found = <<>> THEN 0 ELSE found[1].confidence

\* The keys of the technologies the runtime globals of a window give.
RuntimeKeys(window) ==
    {mapBrowserTechToKey(extractBrowserTechnologies(window)[i]) :
        i \in DOMAIN extractBrowserTechnologies(window)} \ {""}

\* C24: in the record the Tier-2 handler writes for a rendered page, the match
\* of a technology found through a runtime global has confidence max(c, 3), c
\* being the confidence the scan of the rendered document recorded (0 if none);
\* the match of any other technology has the confidence the scan recorded.
C24_RuntimeConfidence ==
    \A u \in URLS :
        t2[u].at = "pushing" =>
            \A key \in TechKeys :
                LET c == RenderedConfidence(page[u].doc, key)
                    m == MatchOfKey(t2[u].pending, key)
                IN IF key \in RuntimeKeys(page[u].window)
                   THEN m # NULL /\ m.confidence = (IF c >= 3 THEN c ELSE 3)
                   ELSE IF c = 0 THEN m = NULL
                        ELSE m # NULL /\ m.confidence = c

\* The record of a rendered page is being written whose scan recorded react
\* with confidence 2 and whose window defines React: the match has confidence 3.
C24_Witness ==
    /\ t2["u1"].at = "pushing"
    /\ "React" \in page["u1"].window
    /\ RenderedConfidence(page["u1"].doc, "react") = 2
    /\ MatchOfKey(t2["u1"].pending, "react").confidence = 3

\* ---------------------------------------------------------------- C25

\* The verdict of the record is the one built from the technologies and the
\* matches the record itself carries.
VerdictOfOwnMatches(r) ==
    r.verdict = buildVerdict(r.technologies, r.detectionDetails.matches, r.waf, r.server)

\* C25: every browser record, in results, being written or in the sink,
\* carries the verdict built from its merged matches; and a step that turns
\* the record of a URL into a browser record is the step that hands that same
\* record to the sink writer.
C25_VerdictAfterMerge ==
    /\ [](\A r \in BrowserRecords(ScanResults) : VerdictOfOwnMatches(r))
    /\ [](\A u \in URLS : t2[u].at = "pushing" =>
              /\ t2[u].pending.detectionMethod = "browser"
              /\ VerdictOfOwnMatches(t2[u].pending))
    /\ [][\A i \in DOMAIN results :
              (i \in DOMAIN results' /\ results'[i] # results[i]) =>
                  /\ results'[i].detectionMethod = "browser"
                  /\ t2'[results[i].url].at = "pushing"
                  /\ t2'[results[i].url].pending = results'[i]]_vars

\* The sink holds the Tier-1 record of u1, whose verdict has no frontend pick,
\* and its browser record, whose verdict picks the react the runtime globals
\* alone gave.
C25_Witness ==
    \E r \in BrowserRecords(SinkRecordsOf("u1")) :
        /\ r.verdict.primary.frontend # NULL
        /\ r.verdict.primary.frontend.key = "react"
        /\ r.verdict.primary.frontend.confidence = 3
        /\ MatchOfKey(r, "react").sources = <<WindowLabel>>
        /\ \E d \in Tier1SinkRecords("u1") :
              d.status = "success" /\ d.verdict.primary.frontend = NULL

\* ---------------------------------------------------------------- C26

\* The URLs that have been handed to Tier 2.
Tier2Urls == {u \in URLS : t2[u].at # "none"}

\* The URLs of the records of a list, in order.
UrlsOf(list) == [i \in DOMAIN list |-> list[i].url]

\* C26: while a URL is in Tier 2 every Tier-1 request is handled or given up;
\* the URLs of Tier 2 are chosen in one step, from a result list that holds the
\* record of every Tier-1 task that produced one, as the URLs of its success
\* records without technology; and once Tier 2 has URLs no step adds a record
\* to the result list or moves a Tier-1 request.
C26_Tier2AfterTier1 ==
    /\ [](Tier2Urls # {} => \A v \in URLS : Terminal(t1[v]))
    /\ [][(\E u \in URLS : t2[u].at = "none" /\ t2'[u].at # "none") =>
              /\ Tier2Urls = {}
              /\ \A v \in URLS : Terminal(t1[v])
              /\ \A v \in URLS : t1[v].at = "handled" => FindIndex(results, v) # 0
              /\ results' = results
              /\ \A u \in URLS :
                    t2'[u].at # "none" <=>
                        \E i \in DOMAIN results :
                            /\ results[i].url = u
                            /\ results[i].status = "success"
                            /\ TechSet(results[i]) = {}]_vars
    /\ [][Tier2Urls # {} => UrlsOf(results') = UrlsOf(results) /\ t1' = t1]_vars

\* Both URLs of a batch are in Tier 2, one being written and one waiting.
C26_Witness ==
    /\ pc = "tier2"
    /\ t2["u1"].at = "pushing"
    /\ t2["u2"].at = "queued"
    /\ Len(results) = 2

\* ---------------------------------------------------------------- C27

\* The number of hits the document gives a key on a channel.
HitCount(doc, key, channel) ==
    Len(SelectSeq(HitsFrom(doc, 1), LAMBDA h : h.key = key /\ h.channel = channel))

\* The sum of the channel weights over the hits of a key, with the weights the
\* claim states.
StatedScore(doc, key) ==
    3 * HitCount(doc, key, "script") + 2 * HitCount(doc, key, "stylesheet")
    + 2 * HitCount(doc, key, "meta") + 2 * HitCount(doc, key, "html")
    + 2 * HitCount(doc, key, "header") + 1 * HitCount(doc, key, "cdn")

OnlyOwnSelectedRecord(i) ==
    (i \in DOMAIN results' /\ results'[i] # results[i]) =>
        /\ input.usePlaywrightFallback
        /\ \E d \in Tier1SinkRecords(results[i].url) :
              d.status = "success" /\ TechSet(d) = {}
        /\ results'[i].url = results[i].url
        /\ t2[results[i].url].at = "loaded"
        /\ t2'[results[i].url].at = "pushing"
        /\ \A v \in URLS \ {results[i].url} : t2'[v] = t2[v]
        /\ \A j \in DOMAIN results \ {i} : j \in DOMAIN results' /\ results'[j] = results[j]

\* C28: no step removes a record from the result list, and a step changes a
\* record only as the Tier-2 task of the record's own, selected URL: a record
\* that is failed, lists a Tier-1 technology or belongs to a run without the
\* fallback stays as Tier 1 created it, whatever the order in which the
\* Tier-2 tasks take their steps.
C28_OnlyOwnRecord ==
    [][/\ Len(results') >= Len(results)
       /\ \A i \in DOMAIN results : OnlyOwnSelectedRecord(i)]_vars

\* The run has ended on a batch of two URLs: the record of u1 was updated by
\* Tier 2 and the record of u2, which listed a technology, is as its Tier-1
\* record in the sink.
C28_Witness ==
    /\ pc = "succeeded"
    /\ Len(results) = 2
    /\ \E i, j \in DOMAIN results :
          /\ results[i].url = "u1"
          /\ results[i].status = "success"
          /\ results[i].detectionMethod = "browser"
          /\ results[j].url = "u2"
          /\ results[j].status = "success"
          /\ TechSet(results[j]) # {}
          /\ results[j] \in Tier1SinkRecords("u2")

\* ---------------------------------------------------------------- C29

\* The fields of a ScanResult that the claim says a Tier-2 update leaves alone.
KeptFields(r) ==
    <<r.url, r.status, r.waf, r.apis, r.server, r.metadata.title,
      r.metadata.description, r.scannedAt>>

\* The verdict of record r is the one built from r's technologies and matches
\* and from the waf and server of record d.
VerdictFromOrigin(r, d) ==
    r.verdict = buildVerdict(r.technologies, r.detectionDetails.matches, d.waf, d.server)

\* C29: a step that changes a record of results keeps its url, status, waf,
\* apis, server, metadata.title, metadata.description and scannedAt, and gives
\* it the verdict built from the new technologies and matches with the waf and
\* server the record had; and every browser record, in results or in the sink,
\* has these fields equal to those of the record Tier 1 wrote for its URL and a
\* verdict built from that record's waf and server.
C29_UpdateFrame ==
    /\ [][\A i \in DOMAIN results :
              (i \in DOMAIN results' /\ results'[i] # results[i]) =>
                  /\ KeptFields(results'[i]) = KeptFields(results[i])
                  /\ VerdictFromOrigin(results'[i], results[i])]_vars
    /\ [](\A b \in BrowserRecords(ScanResults) :
              \E d \in Tier1SinkRecords(b.url) :
                  /\ d.status = "success"
                  /\ KeptFields(d) = KeptFields(b)
                  /\ VerdictFromOrigin(b, d))

\* The static response of u1 came through Akamai from a PHP origin with the
\* title Shop and gave no technology; the rendered response has no header and
\* no title and its window defines React.  The updated record lists React and
\* keeps the waf, the server and the title, and its verdict names PHP.
C29_Witness ==
    /\ t2["u1"].at = "pushing"
    /\ page["u1"].doc = {}
    /\ \E i \in DOMAIN results :
          /\ results[i].url = "u1"
          /\ results[i].status = "success"
          /\ results[i].detectionMethod = "browser"
          /\ TechSet(results[i]) # {}
          /\ results[i].waf.detected
          /\ results[i].server.poweredBy = <<"P","H","P">>
          /\ results[i].metadata.title = <<"S","h","o","p">>
          /\ Includes(results[i].verdict.inferred.languages, <<"P","H","P">>)
          /\ results[i] = t2["u1"].pending

\* ---------------------------------------------------------------- C30

\* The entry of a technology list names the technology of key: its display
\* name, alone or followed by a space and a version.
NamesKey(entry, key) ==
    \/ entry = humanizeTechName(Spell[key])
    \/ StartsWith(entry, humanizeTechName(Spell[key]) \o <<" ">>)

\* The entries of the list that name the technology of key.
EntriesOfKey(list, key) == {i \in DOMAIN list : NamesKey(list[i], key)}

\* C30: in every ScanResult, static or browser, no category list holds two
\* entries for the same technology key, versioned or not.
C30_OneEntryPerKey ==
    \A r \in ScanResults :
        \A c \in DOMAIN r.technologies :
            \A key \in TechKeys :
                Cardinality(EntriesOfKey(r.technologies[c], key)) <= 1

====
